---- MODULE Spec2Model ----
(***************************************************************************)
(* Data-lifecycle subsystem of funbuns: run files, the run ingester        *)
(* (Compactor), the block catalog, the prefix audit and the resume cursor. *)
(*                                                                         *)
(* A record is a tuple <<p, m_k, n_k, q_k>>.  A data frame is a sequence   *)
(* of records.  The block directory is a function from block file names    *)
(* <<seq, pmax>> (pp_b{seq:03d}_p{pmax}.parquet) to data frames; the run   *)
(* directory is a function from run-file ids to data frames.               *)
(***************************************************************************)
EXTENDS Integers, Sequences, FiniteSets, TLC

\* ---------------------------------------------------------------- bounds
MaxPrimeIdx == 3      \* run writers handle the primes nth(0) .. nth(MaxPrimeIdx-1)
MaxTarget == 2        \* target_prime_count ranges over 1..MaxTarget
MaxRunFiles == 2      \* run files present in the run directory at one time
MaxBatch == 1         \* primes of one worker batch, and num_primes of one session, range over 1..MaxBatch

VARIABLES
    blocks,     \* block directory: [names -> data frame]
    torn,       \* names of block files whose write has begun and not completed
    runs,       \* run directory: [ids -> data frame]
    target,     \* configured target_prime_count
    last,       \* the last operation and what it returned
    cpc,        \* position of the running Compactor pass ("idle" when none)
    cread,      \* ids of the run files the pass has read
    cplan,      \* block writes the pass still has to perform
    cdel,       \* the pass's delete_run_files argument
    backup,     \* backup directory: [<<kind, "b" or "r", name>> -> data frame]
    bpart,      \* backup files whose copy has begun and not completed
    mop,        \* the running BlockManager operation (pc "idle" when none)
    mlast,      \* the last BlockManager call and what it returned
    datafiles,  \* the pparts_run_{timestamp}.parquet files of get_data_dir(): [timestamp -> data frame]
    now,        \* the wall clock, in seconds
    handed,     \* the frames handed to append_data so far, in call order
    wk          \* a PPBatchProcessor: its batch, its position in it, self.results

vars == <<blocks, torn, runs, target, last, cpc, cread, cplan, cdel,
          backup, bpart, mop, mlast, datafiles, now, handed, wk>>
cvars == <<cpc, cread, cplan, cdel>>
mvars == <<backup, bpart, mop, mlast>>
avars == <<datafiles, now, handed>>

\* ------------------------------------------------- Canonical Prime Oracle
IsPrime(n) == n >= 2 /\ \A d \in 2..(n - 1) : n % d # 0

next_prime(n) ==
    CHOOSE p \in (n + 1)..(2 * n + 3) :
        IsPrime(p) /\ \A q \in (n + 1)..(p - 1) : ~IsPrime(q)

RECURSIVE unrank(_)
unrank(i) == IF i = 0 THEN 2 ELSE next_prime(unrank(i - 1))

\* prime_range(a, b): the primes p with a <= p < b, ascending
RECURSIVE prime_range(_, _)
prime_range(a, b) ==
    IF a >= b THEN <<>>
    ELSE IF IsPrime(a) THEN <<a>> \o prime_range(a + 1, b)
    ELSE prime_range(a + 1, b)

\* ------------------------------------------------------------ sequences
Range(s) == {s[i] : i \in 1..Len(s)}

RECURSIVE Concat(_)
Concat(ss) == IF ss = <<>> THEN <<>> ELSE Head(ss) \o Concat(Tail(ss))

Remove(s, i) == [j \in 1..(Len(s) - 1) |-> IF j < i THEN s[j] ELSE s[j + 1]]

Count(s, x) == Cardinality({i \in 1..Len(s) : s[i] = x})

RECURSIVE Perms(_)
Perms(S) ==
    IF S = {} THEN {<<>>}
    ELSE UNION {{<<x>> \o s : s \in Perms(S \ {x})} : x \in S}

SetMin(S) == CHOOSE x \in S : \A y \in S : x <= y
SetMax(S) == CHOOSE x \in S : \A y \in S : x >= y

RECURSIVE SortedSeq(_)
SortedSeq(S) ==
    IF S = {} THEN <<>> ELSE <<SetMin(S)>> \o SortedSeq(S \ {SetMin(S)})

\* ------------------------------------------------------- pp_parts (worker)
RECURSIVE Pow(_, _)
Pow(b, e) == IF e = 0 THEN 1 ELSE b * Pow(b, e - 1)

exact_log2(p) == CHOOSE k \in 0..p : Pow(2, k) <= p /\ p < Pow(2, k + 1)

\* is_prime_power(get_data=True): <<base, exp>>, exp = 0 when n is no prime power
is_prime_power(n) ==
    LET hits == {be \in (2..n) \X (1..n) : IsPrime(be[1]) /\ Pow(be[1], be[2]) = n}
    IN  IF hits = {} THEN <<n, 0>> ELSE CHOOSE be \in hits : TRUE

RECURSIVE pp_iter(_, _, _)
pp_iter(p, m, max_m) ==
    IF m > max_m THEN <<>>
    ELSE LET pe == is_prime_power(p - Pow(2, m))
         IN  (IF pe[2] # 0 THEN <<<<p, m, pe[2], pe[1]>>>> ELSE <<>>)
             \o pp_iter(p, m + 1, max_m)

pp_parts(p) ==
    IF p = 2 \/ p = 3 THEN <<<<p, 0, 0, 0>>>>
    ELSE LET found == pp_iter(p, 1, exact_log2(p))
         IN  IF found = <<>> THEN <<<<p, 0, 0, 0>>>> ELSE found

RECURSIVE process_batch(_)
process_batch(batch) ==
    IF batch = <<>> THEN <<>> ELSE pp_parts(Head(batch)) \o process_batch(Tail(batch))

\* ------------------------------------------------------------ data frames
PCol(df) == {df[i][1] : i \in 1..Len(df)}
n_unique(df) == Cardinality(PCol(df))
FilterOpenUpper(df, lo, hi) == SelectSeq(df, LAMBDA r : r[1] >= lo /\ r[1] < hi)
Filter(df, lo, hi) == SelectSeq(df, LAMBDA r : r[1] >= lo /\ r[1] <= hi)

\* df.unique(keys): one row per key; the order of the result is unspecified
Unique(df) == Perms(Range(df))

\* df.sort("p"): rows ordered by p; the order among equal p is unspecified
RECURSIVE SortP(_)
SortP(df) ==
    IF df = <<>> THEN {<<>>}
    ELSE LET lo == SetMin(PCol(df))
             firsts == {i \in 1..Len(df) : df[i][1] = lo}
         IN  UNION {{<<df[i]>> \o s : s \in SortP(Remove(df, i))} : i \in firsts}

\* ------------------------------------------------------- block file names
None == -1            \* Python None in a BlockInfo field or a parse result

ChP == 112            \* "p"
ChB == 98             \* "b"
ChUnderscore == 95    \* "_"
ChZero == 48          \* "0"

RECURSIVE Digits(_)
Digits(n) == IF n < 10 THEN <<ChZero + n>> ELSE Digits(n \div 10) \o <<ChZero + (n % 10)>>

RECURSIVE PadTo(_, _)
PadTo(s, w) == IF Len(s) >= w THEN s ELSE PadTo(<<ChZero>> \o s, w)

\* name.replace(".parquet", "") of f"pp_b{seq:03d}_p{pmax}.parquet", as character codes
BaseName(name) ==
    <<ChP, ChP, ChUnderscore, ChB>> \o PadTo(Digits(name[1]), 3)
        \o <<ChUnderscore, ChP>> \o Digits(name[2])

BlockNameFromZero(seq, pmax) == <<seq - 1, pmax>>
BlockName(seq, pmax) == <<seq, pmax>>

\* str comparison of two paths of the block directory: the names differ before
\* the common ".parquet" suffix or one base name is a prefix of the other, and
\* "." sorts before every digit
RECURSIVE StrLess(_, _)
StrLess(a, b) ==
    IF b = <<>> THEN FALSE
    ELSE IF a = <<>> THEN TRUE
    ELSE IF Head(a) = Head(b) THEN StrLess(Tail(a), Tail(b))
    ELSE Head(a) < Head(b)

NameLess(x, y) == StrLess(BaseName(x), BaseName(y))

\* sorted(bdir.glob("pp_b*.parquet"))
RECURSIVE SortNames(_)
SortNames(S) ==
    IF S = {} THEN <<>>
    ELSE LET first == CHOOSE x \in S : \A y \in S \ {x} : NameLess(x, y)
         IN  <<first>> \o SortNames(S \ {first})

list_block_files(b) == SortNames(DOMAIN b)

\* base.split("_")
RECURSIVE Split(_, _)
Split(s, cur) ==
    IF s = <<>> THEN <<cur>>
    ELSE IF Head(s) = ChUnderscore THEN <<cur>> \o Split(Tail(s), <<>>)
    ELSE Split(Tail(s), Append(cur, Head(s)))

IsDigitStr(s) == s # <<>> /\ \A i \in 1..Len(s) : s[i] >= ChZero /\ s[i] <= ChZero + 9

RECURSIVE ToInt(_)
ToInt(s) == IF s = <<>> THEN 0 ELSE 10 * ToInt(SubSeq(s, 1, Len(s) - 1)) + (s[Len(s)] - ChZero)

\* next((p for p in parts if p.startswith(ch)), None), then int(part[1:]) if it is all digits
FirstPartNumber(parts, ch) ==
    LET hits == {i \in 1..Len(parts) : parts[i] # <<>> /\ parts[i][1] = ch}
    IN  IF hits = {} THEN None
        ELSE LET part == parts[SetMin(hits)]
             IN  IF IsDigitStr(Tail(part)) THEN ToInt(Tail(part)) ELSE None

\* the parse its docstring describes: (block_num, max_prime) of pp_b{NNN}_p{MAX}
ParseAsDocumented(name) == <<name[1], name[2]>>

_parse_block_filename(name) ==
    LET parts == Split(BaseName(name), <<>>)
    IN  <<FirstPartNumber(parts, ChB), FirstPartNumber(parts, ChP)>>

\* ----------------------------------------------------------- block catalog
Readable(b, t, name) == name \in DOMAIN b /\ name \notin t

\* <<min_p, max_p, rows, uniq>>; the scan of a torn file raises, and int(None)
\* raises on the min of an empty p column: both give four None
_fast_block_bounds(b, t, name) ==
    IF ~Readable(b, t, name) \/ b[name] = <<>> THEN <<None, None, None, None>>
    ELSE <<SetMin(PCol(b[name])), SetMax(PCol(b[name])), Len(b[name]), n_unique(b[name])>>

BlockInfo(b, t, name) ==
    LET parsed == _parse_block_filename(name)
        bounds == _fast_block_bounds(b, t, name)
        resolved_max == IF bounds[2] # None THEN bounds[2] ELSE parsed[2]
    IN  [path |-> name, block_num |-> parsed[1], min_prime |-> bounds[1],
         max_prime |-> resolved_max, num_rows |-> bounds[3],
         num_unique_primes |-> bounds[4]]

build_block_catalog(b, t) ==
    LET files == list_block_files(b)
    IN  [i \in 1..Len(files) |-> BlockInfo(b, t, files[i])]

\* key=(inf if min_prime is None else min_prime, inf if max_prime is None else max_prime)
KeyLess(x, y) ==
    LET lt(u, v) == u # None /\ (v = None \/ u < v)
    IN  \/ lt(x.min_prime, y.min_prime)
        \/ x.min_prime = y.min_prime /\ lt(x.max_prime, y.max_prime)

\* sorted(catalog, key=...): a stable sort
RECURSIVE StableSort(_)
StableSort(cat) ==
    IF cat = <<>> THEN <<>>
    ELSE LET i == SetMin({j \in 1..Len(cat) : \A k \in 1..Len(cat) : ~KeyLess(cat[k], cat[j])})
         IN  <<cat[i]>> \o StableSort(Remove(cat, i))

sorted_blocks_by_data(b, t) == StableSort(build_block_catalog(b, t))

\* ------------------------------------------------------------ resume cursor
Raised == <<-2, -2>>      \* the call raises instead of returning a pair

\* pl.scan_parquet(glob): the files in path order, one frame after the other
ScanAll(b) ==
    LET files == list_block_files(b)
    IN  Concat([i \in 1..Len(files) |-> b[files[i]]])

compute_resume_from_blocks(b, t) ==
    IF DOMAIN b = {} THEN <<2, 0>>
    ELSE IF t # {} \/ ScanAll(b) = <<>> THEN Raised
    ELSE <<SetMax(PCol(ScanAll(b))), n_unique(ScanAll(b))>>

resume_p(b, t) ==
    IF DOMAIN b = {} THEN <<2, 0>>
    ELSE IF t # {} THEN Raised
    ELSE IF ScanAll(b) = <<>> THEN <<2, 0>>
    ELSE <<ScanAll(b)[Len(ScanAll(b))][1], n_unique(ScanAll(b))>>

\* ------------------------------------------------------------- prefix check
RECURSIVE PrefixLoop(_, _, _, _, _)
PrefixLoop(infos, i, cumulative, prev_max, acc) ==
    IF i > Len(infos) THEN acc
    ELSE LET info == infos[i]
             uniq == IF info.num_unique_primes = None THEN 0 ELSE info.num_unique_primes
             cum == cumulative + uniq
             expected_max == IF cum > 0 THEN unrank(cum - 1) ELSE None
             name_max == _parse_block_filename(info.path)[2]
             fmis == name_max # None /\ info.max_prime # None /\ name_max # info.max_prime
             gap == /\ prev_max # None
                    /\ info.min_prime # None
                    /\ info.min_prime # next_prime(prev_max)
             mis == /\ expected_max # None
                    /\ info.max_prime # None
                    /\ expected_max # info.max_prime
         IN  PrefixLoop(infos, i + 1, cum,
                 IF info.max_prime # None THEN info.max_prime ELSE prev_max,
                 [gaps |-> IF gap THEN Append(acc.gaps, <<prev_max, info.min_prime, next_prime(prev_max)>>)
                           ELSE acc.gaps,
                  filename_mismatch |-> IF fmis THEN Append(acc.filename_mismatch, info.path)
                                        ELSE acc.filename_mismatch,
                  mismatches |-> IF mis THEN Append(acc.mismatches, info.path)
                                 ELSE acc.mismatches])

\* a prefix check without the boundary test
prefix_check_no_boundary(b, t) ==
    [PrefixLoop(sorted_blocks_by_data(b, t), 1, 0, None,
                [gaps |-> <<>>, filename_mismatch |-> <<>>, mismatches |-> <<>>])
        EXCEPT !.gaps = <<>>]

prefix_check(b, t) ==
    PrefixLoop(sorted_blocks_by_data(b, t), 1, 0, None,
               [gaps |-> <<>>, filename_mismatch |-> <<>>, mismatches |-> <<>>])

\* audit_boundaries: one row per block in content order, status "gap" when the
\* block's min_prime is not next_prime of the max_prime seen before it
RECURSIVE BoundaryLoop(_, _, _)
BoundaryLoop(infos, idx, prev_max) ==
    IF idx > Len(infos) THEN <<>>
    ELSE LET info == infos[idx]
             checked == prev_max # None /\ info.min_prime # None
             exp == IF checked THEN next_prime(prev_max) ELSE None
             status == IF checked /\ info.min_prime # exp THEN "gap" ELSE "ok"
         IN  <<[idx |-> idx, file |-> info.path, block_num |-> info.block_num,
                min_p |-> info.min_prime, max_p |-> info.max_prime,
                expected_prev_next |-> exp, status |-> status]>>
             \o BoundaryLoop(infos, idx + 1,
                             IF info.max_prime # None THEN info.max_prime ELSE prev_max)

audit_boundaries(b, t) == BoundaryLoop(sorted_blocks_by_data(b, t), 1, None)

\* ------------------------------------------------------------ data integrity
\* a join that finds no row
JoinHeightNone(a, b) == 0

\* a_p.join(b_p, on="p", how="inner").height: one row per pair of rows with equal p
JoinHeight(a, b) ==
    Cardinality({ij \in (1..Len(a)) \X (1..Len(b)) : a[ij[1]][1] = b[ij[2]][1]})

\* detect_overlaps_between_blocks: a row for each pair of consecutive entries of
\* sorted_blocks_by_data whose join is not empty; a pair with a file that cannot
\* be read is skipped
RECURSIVE OverlapLoop(_, _, _, _)
OverlapLoop(b, t, infos, i) ==
    IF i >= Len(infos) THEN <<>>
    ELSE LET a_path == infos[i].path
             b_path == infos[i + 1].path
             ok == a_path \notin t /\ b_path \notin t
             overlap == IF ok THEN JoinHeight(b[a_path], b[b_path]) ELSE 0
         IN  (IF overlap > 0
              THEN <<[block_a |-> a_path, block_b |-> b_path, overlap_primes |-> overlap]>>
              ELSE <<>>)
             \o OverlapLoop(b, t, infos, i + 1)

detect_overlaps_between_blocks(b, t) ==
    LET infos == sorted_blocks_by_data(b, t)
    IN  IF Len(infos) < 2 THEN <<>> ELSE OverlapLoop(b, t, infos, 1)

\* ---------------------------------------------------------- store predicates
AllRows(b) == UNION {Range(b[x]) : x \in DOMAIN b}
AllPrimes(b) == UNION {PCol(b[x]) : x \in DOMAIN b}
RowCount(b, row) == Count(ScanAll(b), row)
NoDupRows(b) ==
    /\ \A x \in DOMAIN b : Len(b[x]) = Cardinality(Range(b[x]))
    /\ \A x, y \in DOMAIN b : x # y => Range(b[x]) \cap Range(b[y]) = {}
FirstPrimes(k) == {unrank(i) : i \in 0..(k - 1)}
PrimesFrom(k, n) == {unrank(i) : i \in k..(k + n - 1)}

\* Prefix Invariant for K: every block readable and non-empty, the primes of the
\* blocks are the first K primes, no prime is in two blocks, and the blocks'
\* prime ranges do not interleave
PrefixInv(b, t, k) ==
    /\ t = {}
    /\ \A x \in DOMAIN b : b[x] # <<>>
    /\ AllPrimes(b) = FirstPrimes(k)
    /\ \A x, y \in DOMAIN b :
          x # y => \/ SetMax(PCol(b[x])) < SetMin(PCol(b[y]))
                   \/ SetMax(PCol(b[y])) < SetMin(PCol(b[x]))

PrefixK(b, t) ==
    IF PrefixInv(b, t, Cardinality(AllPrimes(b))) THEN Cardinality(AllPrimes(b)) ELSE -1

\* ------------------------------------------------------------- run ingester
\* the frames of all run files, one after the other (glob order)
_read_all_runs(r) ==
    LET ids == SortedSeq(DOMAIN r)
    IN  Concat([i \in 1..Len(ids) |-> r[ids[i]]])

\* The frame data of a pass: data.select(keep_cols).sort("p") then _dedup(data).
\* The row order that sort leaves among equal p and that unique leaves at all is
\* unspecified.  Every later use of data (len, n_unique, the sorted unique p
\* column, a range filter followed by unique, which is modelled with every
\* order) gives the same results for every order of data, so here one order
\* stands for all: sort keeps the order of equal p, unique keeps first occurrences.
RECURSIVE StableSortP(_)
StableSortP(df) ==
    IF df = <<>> THEN <<>>
    ELSE LET lo == SetMin(PCol(df))
             i == SetMin({j \in 1..Len(df) : df[j][1] = lo})
         IN  <<df[i]>> \o StableSortP(Remove(df, i))

RECURSIVE FirstOccurrences(_, _)
FirstOccurrences(df, seen) ==
    IF df = <<>> THEN <<>>
    ELSE IF Head(df) \in seen THEN FirstOccurrences(Tail(df), seen)
    ELSE <<Head(df)>> \o FirstOccurrences(Tail(df), seen \cup {Head(df)})

_dedup(df) == FirstOccurrences(df, {})

NormalizedData(raw) == _dedup(StableSortP(raw))

Min2Uncapped(a, b) == b
Min2(a, b) == IF a < b THEN a ELSE b

\* new blocks for the remaining unique primes, block_cursor counting from cursor
RECURSIVE NewBlockOps(_, _, _, _)
NewBlockOps(data, unique_primes, T, block_cursor) ==
    IF unique_primes = <<>> THEN <<>>
    ELSE LET slice_size == Min2(T, Len(unique_primes))
             min_p == unique_primes[1]
             max_p == unique_primes[slice_size]
         IN  <<[kind |-> "new",
                path |-> BlockName(block_cursor + 1, max_p),
                newpath |-> BlockName(block_cursor + 1, max_p),
                rows |-> Filter(data, min_p, max_p)]>>
             \o NewBlockOps(data, SubSeq(unique_primes, slice_size + 1, Len(unique_primes)),
                            T, block_cursor + 1)

PlanOpsNoTopUp(b, data, T) ==
    NewBlockOps(data, SortedSeq(PCol(data)), T, Len(list_block_files(b)))

\* the block writes of one pass over data: the top-up of the last block (last by
\* file name) when it holds fewer than T unique primes, then the new blocks
PlanOps(b, data, T) ==
    LET existing_blocks == list_block_files(b)
        n == Len(existing_blocks)
        last_block == existing_blocks[n]
        last_block_primes == IF n = 0 THEN 0 ELSE n_unique(b[last_block])
        unique_primes == SortedSeq(PCol(data))
        topup == n > 0 /\ last_block_primes < T
        primes_to_append == IF topup THEN Min2(T - last_block_primes, Len(unique_primes)) ELSE 0
        append_op ==
            IF primes_to_append > 0
            THEN <<[kind |-> "append",
                    path |-> last_block,
                    newpath |-> BlockName(n, unique_primes[primes_to_append]),
                    rows |-> Filter(data, unique_primes[1], unique_primes[primes_to_append])]>>
            ELSE <<>>
    IN  append_op \o NewBlockOps(data,
                        SubSeq(unique_primes, primes_to_append + 1, Len(unique_primes)), T, n)

\* the frames a block write may put on disk
\*   append: pl.concat([read_parquet(last_block), append_rows.unique(keys)]).sort("p")
\*   new:    data.filter(range).unique(keys)
\* (what sort may return does not depend on the order unique left its input in)
WriteFrames(b, op) ==
    IF op.kind = "append"
    THEN SortP(b[op.path] \o _dedup(op.rows))
    ELSE Unique(op.rows)

\* write_parquet(path) completed
PutFile(b, name, df) == [x \in DOMAIN b \cup {name} |-> IF x = name THEN df ELSE b[x]]

\* Path.rename: the target is replaced when it exists
RenameFile(b, src, dst) ==
    IF src = dst THEN b
    ELSE [x \in (DOMAIN b \ {src}) \cup {dst} |-> IF x = dst THEN b[src] ELSE b[x]]

\* the block directories one block write (and the rename of a topped-up block) may leave
OpOutcomes(b, op) ==
    {RenameFile(PutFile(b, op.path, df), op.path, op.newpath) : df \in WriteFrames(b, op)}

RECURSIVE PlanOutcomes(_, _)
PlanOutcomes(b, plan) ==
    IF plan = <<>> THEN {b}
    ELSE UNION {PlanOutcomes(b2, Tail(plan)) : b2 \in OpOutcomes(b, Head(plan))}

NoRuns == [i \in {} |-> <<>>]

DeleteRunsKept(r, delete_run_files) == r

\* if delete_run_files: every file that rdir.glob("*.parquet") returns is unlinked
DeleteRuns(r, delete_run_files) == IF delete_run_files THEN NoRuns ELSE r

\* ------------------------------------------------------------ batch feeder
\* PPBatchFeeder.__init__: the primes of a session, <<>> when the constructor
\* raises (num_primes not divisible by batch_size, or reshape of a list whose
\* length is not num_batches * batch_size)
FeederPrimes(init_p, num_primes, batch_size, start_idx) ==
    LET final_prime == unrank(start_idx + num_primes - 1)
        start_prime == IF init_p <= 2 THEN init_p ELSE next_prime(init_p)
        p_list == prime_range(start_prime, final_prime + 1)
    IN  IF num_primes % batch_size # 0 THEN <<>>
        ELSE IF Len(p_list) # (num_primes \div batch_size) * batch_size THEN <<>>
        ELSE p_list

\* ----------------------------------------------------------------- actions
\* a PPBatchProcessor after __init__: no batch, self.results empty
WIdle == [pc |-> "idle", batch |-> <<>>, pos |-> 0, results |-> <<>>]

Quiet == [op |-> "init", del |-> FALSE, ret |-> "none", k |-> -1, n |-> -1]

FreeRunId == SetMin((1..(MaxRunFiles + 1)) \ DOMAIN runs)

\* the primes nth(i) .. nth(i + n - 1), ascending: one worker batch
BatchFrom(i, n) == [j \in 1..n |-> unrank(i + j - 1)]

\* The model follows the store up to the first pass that leaves a row twice:
\* run files are written and passes start while no block row is stored twice.
Sound == NoDupRows(blocks)

\* number of distinct primes that are stored or wait in a run file
Known == Cardinality(AllPrimes(blocks) \cup PCol(_read_all_runs(runs)))

\* BlockManager.__init__ made an empty backup directory; no call is running
NoBackup == [k \in {} |-> <<>>]
MIdle == [pc |-> "idle", op |-> "none", arg |-> 0, todo |-> <<>>, kind |-> "none",
          cur |-> <<0, 0>>, start |-> [x \in {} |-> <<>>]]
MQuiet == [op |-> "init", arg |-> 0, yes |-> FALSE, dry_run |-> FALSE, listed |-> 0,
           status |-> "none", ret |-> None]

Init ==
    /\ blocks = [x \in {} |-> <<>>]
    /\ torn = {}
    /\ runs = NoRuns
    /\ target \in 1..MaxTarget
    /\ last = Quiet
    /\ cpc = "idle"
    /\ cread = {}
    /\ cplan = <<>>
    /\ cdel = FALSE
    /\ backup = NoBackup
    /\ bpart = {}
    /\ mop = MIdle
    /\ mlast = MQuiet
    /\ datafiles = NoRuns
    /\ now = 0
    /\ handed = <<>>
    /\ wk = WIdle

\* a worker's run file for the batch nth(i) .. nth(i + n - 1) lands in the run
\* directory; the batch may repeat primes that are stored or pending already
\* (a session that was run again) and leaves no prime out before it
WriteRun(i, n) ==
    /\ i + n <= MaxPrimeIdx
    /\ Cardinality(DOMAIN runs) < MaxRunFiles
    /\ Sound
    /\ i <= Known
    /\ runs' = [f \in DOMAIN runs \cup {FreeRunId} |->
                    IF f = FreeRunId THEN process_batch(BatchFrom(i, n)) ELSE runs[f]]
    /\ last' = [Quiet EXCEPT !.op = "write"]
    /\ UNCHANGED <<blocks, torn, target>>

\* run_gen in resume mode: resume_p, PPBatchFeeder, the workers, one run file
RunGen(num_primes, batch_size) ==
    LET cursor == resume_p(blocks, torn)
        plist == IF cursor = Raised THEN <<>>
                 ELSE FeederPrimes(cursor[1], num_primes, batch_size, cursor[2])
        info == [op |-> "rungen", del |-> FALSE,
                 ret |-> IF plist = <<>> THEN "raise" ELSE "ok",
                 k |-> -1, n |-> num_primes]
    IN  /\ Cardinality(DOMAIN runs) < MaxRunFiles
        /\ Sound
        /\ cursor = Raised \/ cursor[2] + num_primes <= MaxPrimeIdx
        /\ runs' = IF plist = <<>> THEN runs
                   ELSE [i \in DOMAIN runs \cup {FreeRunId} |->
                            IF i = FreeRunId THEN process_batch(plist) ELSE runs[i]]
        /\ last' = info
            /\ UNCHANGED <<blocks, torn, target>>

\* K when the blocks satisfy the Prefix Invariant for K and the run files hold
\* records for exactly the next N >= 1 primes, -1 otherwise
CoverK(b, t, r) ==
    LET k == PrefixK(b, t)
        ps == PCol(_read_all_runs(r))
    IN  IF k >= 0 /\ ps # {} /\ ps = PrimesFrom(k, Cardinality(ps)) THEN k ELSE -1

\* integrate_runs_into_blocks(target, delete_run_files) run from start to end
Ingest(delete_run_files) ==
    LET raw == _read_all_runs(runs)
        data == NormalizedData(raw)
        files == list_block_files(blocks)
        info(ret) == [op |-> "ingest", del |-> delete_run_files, ret |-> ret,
                      k |-> CoverK(blocks, torn, runs), n |-> -1]
    IN  /\ cpc = "idle"
        /\ Sound
            /\ UNCHANGED <<target, torn>>
        /\ IF raw = <<>>
           THEN /\ last' = info("False")
                /\ UNCHANGED <<blocks, runs>>
           ELSE IF files # <<>> /\ files[Len(files)] \in torn
           THEN /\ last' = info("raise")
                /\ UNCHANGED <<blocks, runs>>
           ELSE /\ blocks' \in PlanOutcomes(blocks, PlanOps(blocks, data, target))
                /\ runs' = DeleteRuns(runs, delete_run_files)
                /\ last' = info("True")

Next ==
    \/ \E i \in 0..(MaxPrimeIdx - 1) : \E n \in 1..MaxBatch : WriteRun(i, n) /\ UNCHANGED cvars /\ UNCHANGED mvars /\ UNCHANGED avars /\ UNCHANGED wk
    \/ \E np \in 1..MaxBatch : \E bs \in 1..np : RunGen(np, bs) /\ UNCHANGED cvars /\ UNCHANGED mvars /\ UNCHANGED avars /\ UNCHANGED wk
    \/ \E d \in BOOLEAN : Ingest(d) /\ UNCHANGED cvars /\ UNCHANGED mvars /\ UNCHANGED avars /\ UNCHANGED wk

Spec == Init /\ [][Next]_vars

\* ------------------------------------------- the pass, one file step at a time
\* The same pass as Ingest, split at its effects on the file system, with a
\* crash possible between two steps and workers writing run files meanwhile.
Idle == /\ cpc' = "idle" /\ cread' = {} /\ cplan' = <<>> /\ cdel' = FALSE

\* lines 49-72: read the run files, list the blocks, read the last block
CStart(delete_run_files) ==
    LET raw == _read_all_runs(runs)
        data == NormalizedData(raw)
        files == list_block_files(blocks)
        info(ret) == [op |-> "ingest", del |-> delete_run_files, ret |-> ret,
                      k |-> CoverK(blocks, torn, runs), n |-> -1]
    IN  /\ cpc = "idle"
        /\ Sound
        /\ UNCHANGED <<blocks, torn, runs, target>>
        /\ IF raw = <<>>
           THEN last' = info("False") /\ Idle
           ELSE IF files # <<>> /\ files[Len(files)] \in torn
           THEN last' = info("raise") /\ Idle
           ELSE /\ last' = info("running")
                /\ cpc' = "write"
                /\ cread' = DOMAIN runs
                /\ cplan' = PlanOps(blocks, data, target)
                /\ cdel' = delete_run_files

AfterOpDeleteEarly == "delete"

\* the loop over the blocks goes on, or the pass reaches "if delete_run_files"
AfterOp == IF Len(cplan) > 1 THEN "write" ELSE "delete"

\* write_parquet(path) opens path for writing: the file exists, its previous
\* content is gone and its new content is not complete
CBeginWrite ==
    /\ cpc = "write"
    /\ \E df \in WriteFrames(blocks, Head(cplan)) :
          cplan' = <<[Head(cplan) EXCEPT !.rows = df]>> \o Tail(cplan)
    /\ blocks' = PutFile(blocks, Head(cplan).path, <<>>)
    /\ torn' = torn \cup {Head(cplan).path}
    /\ cpc' = "writing"
    /\ UNCHANGED <<runs, target, last, cread, cdel>>

\* write_parquet(path) returns
CEndWrite ==
    /\ cpc = "writing"
    /\ blocks' = PutFile(blocks, Head(cplan).path, Head(cplan).rows)
    /\ torn' = torn \ {Head(cplan).path}
    /\ IF Head(cplan).newpath # Head(cplan).path
       THEN cpc' = "rename" /\ cplan' = cplan
       ELSE cpc' = AfterOp /\ cplan' = Tail(cplan)
    /\ UNCHANGED <<runs, target, last, cread, cdel>>

\* Path(last_block).rename(new_path)
CRename ==
    /\ cpc = "rename"
    /\ blocks' = RenameFile(blocks, Head(cplan).path, Head(cplan).newpath)
    /\ cpc' = AfterOp
    /\ cplan' = Tail(cplan)
    /\ UNCHANGED <<torn, runs, target, last, cread, cdel>>

\* lines 118-128: the run files found now are unlinked, the pass returns True
CFinish ==
    /\ cpc = "delete"
    /\ runs' = DeleteRuns(runs, cdel)
    /\ last' = [last EXCEPT !.ret = "True"]
    /\ Idle
    /\ UNCHANGED <<blocks, torn, target>>

\* the process of the pass is killed
Crash ==
    /\ cpc # "idle"
    /\ last' = [last EXCEPT !.ret = "killed"]
    /\ Idle
    /\ UNCHANGED <<blocks, torn, runs, target>>

\* a worker writes a run file while a pass may be running
WorkerWrite(i, n) ==
    /\ i + n <= MaxPrimeIdx
    /\ Cardinality(DOMAIN runs) < MaxRunFiles
    /\ Sound
    /\ i <= Known
    /\ runs' = [f \in DOMAIN runs \cup {FreeRunId} |->
                    IF f = FreeRunId THEN process_batch(BatchFrom(i, n)) ELSE runs[f]]
    /\ UNCHANGED <<blocks, torn, target, last>>

NextSteps ==
    \/ \E i \in 0..(MaxPrimeIdx - 1) : \E n \in 1..MaxBatch : WorkerWrite(i, n) /\ UNCHANGED cvars /\ UNCHANGED mvars /\ UNCHANGED avars /\ UNCHANGED wk
    \/ \E d \in BOOLEAN : CStart(d) /\ UNCHANGED mvars /\ UNCHANGED avars /\ UNCHANGED wk
    \/ CBeginWrite /\ UNCHANGED mvars /\ UNCHANGED avars /\ UNCHANGED wk
    \/ CEndWrite /\ UNCHANGED mvars /\ UNCHANGED avars /\ UNCHANGED wk
    \/ CRename /\ UNCHANGED mvars /\ UNCHANGED avars /\ UNCHANGED wk
    \/ CFinish /\ UNCHANGED mvars /\ UNCHANGED avars /\ UNCHANGED wk
    \/ Crash /\ UNCHANGED mvars /\ UNCHANGED avars /\ UNCHANGED wk

SpecSteps == Init /\ [][NextSteps]_vars

\* ------------------------------------------------------ claim vocabulary
BlocksOf(b, p) == {x \in DOMAIN b : p \in PCol(b[x])}
NoSharedPrime(b) == \A p \in AllPrimes(b) : Cardinality(BlocksOf(b, p)) = 1
IngestDone == last'.op = "ingest" /\ last'.ret = "True"
NewRunFiles == DOMAIN runs' \ DOMAIN runs

C2_ResumeSafety ==
    [][(last'.op = "rungen" /\ PrefixK(blocks, torn) >= 0) =>
          /\ last'.ret = "ok"
          /\ NewRunFiles # {}
          /\ \A f \in NewRunFiles :
                PCol(runs'[f]) = PrimesFrom(PrefixK(blocks, torn), last'.n)]_vars

\* C3: an ingest pass run again on the run files that the previous pass consumed
\* and left in place leaves the same set of rows, no row twice and no prime in
\* two blocks.
C3_ReingestHarmless ==
    [][(/\ last.op = "ingest" /\ last.ret = "True" /\ ~last.del
        /\ NoDupRows(blocks) /\ NoSharedPrime(blocks)
        /\ IngestDone) =>
          /\ AllRows(blocks') = AllRows(blocks)
          /\ NoDupRows(blocks')
          /\ NoSharedPrime(blocks')]_vars

\* C4: right after a pass that deleted its run files, a second pass returns
\* False and leaves every block file and its rows as they were.
C4_Idempotent ==
    [][(last.op = "ingest" /\ last.ret = "True" /\ last.del /\ last'.op = "ingest") =>
          /\ last'.ret = "False"
          /\ blocks' = blocks]_vars

C4_Witness ==
    /\ last.op = "ingest"
    /\ last.ret = "False"
    /\ DOMAIN blocks # {}
    /\ runs = NoRuns

\* C5: a key that occurs two or more times in the run files is stored in exactly
\* one row of the blocks after the pass.
C5_DedupCorrect ==
    [][IngestDone =>
          \A row \in Range(_read_all_runs(runs)) :
              Count(_read_all_runs(runs), row) >= 2 => RowCount(blocks', row) = 1]_vars

\* C6: a key of a run file that an existing block holds already is stored in
\* exactly one row after the pass, its prime is in one block only, and the
\* overlap check reports nothing.
C6_NoDupAgainstBlocks ==
    [][(IngestDone /\ NoDupRows(blocks) /\ NoSharedPrime(blocks)) =>
          \A row \in Range(_read_all_runs(runs)) \cap AllRows(blocks) :
              /\ RowCount(blocks', row) = 1
              /\ Cardinality(BlocksOf(blocks', row[1])) = 1]_vars

\* C7: during a pass and after a crash in it, no file of the block directory is
\* a partially written block: a new block is visible only once fully written and
\* a last block being rewritten keeps its previous content until then.
C7_AtomicVisibility == torn = {}

\* C8: a run file that a writer added after the pass read the run directory is,
\* when the pass ends, still in the run directory or held by the blocks.
C8_DeletesOnlyRead ==
    [][(cpc = "delete" /\ cpc' = "idle" /\ last'.ret = "True") =>
          \A f \in DOMAIN runs \ cread :
              \/ f \in DOMAIN runs'
              \/ Range(runs[f]) \subseteq AllRows(blocks')]_vars

\* C9: the resume point is the maximum p of all rows of all blocks, (2, 0) when
\* there is no block, and resume_p and compute_resume_from_blocks agree.
C9_ResumeIsMax ==
    /\ resume_p(blocks, torn) = compute_resume_from_blocks(blocks, torn)
    /\ DOMAIN blocks = {} => resume_p(blocks, torn) = <<2, 0>>
    /\ (DOMAIN blocks # {} /\ torn = {}) => resume_p(blocks, torn)[1] = SetMax(AllPrimes(blocks))

\* C10: whether all block files are readable or one of them is not,
\* sorted_blocks_by_data lists every
\* block file once, in ascending order of the (min, max) of its p column (none
\* last), and each entry's min_prime and max_prime are those of the p column, or
\* None when the file cannot be read: never a number taken from the file name.
ContentMin(b, t, x) == IF x \in t \/ b[x] = <<>> THEN None ELSE SetMin(PCol(b[x]))
ContentMax(b, t, x) == IF x \in t \/ b[x] = <<>> THEN None ELSE SetMax(PCol(b[x]))
NoneLast(u, v) == v = None \/ (u # None /\ u <= v)
C11_UnreadableExcluded ==
    /\ \A i \in 1..Len(build_block_catalog(blocks, torn)) :
          build_block_catalog(blocks, torn)[i].path \notin torn
    /\ \A i \in 1..Len(sorted_blocks_by_data(blocks, torn)) :
          sorted_blocks_by_data(blocks, torn)[i].path \notin torn

\* C12: capacity.  After any sequence of passes run with the same target on an
\* initially empty block directory, every block holds at most target unique
\* primes (unique values of p, not rows).
C12_Capacity == \A x \in DOMAIN blocks : n_unique(blocks[x]) <= target

C12_Witness ==
    /\ last.op = "ingest"
    /\ last.ret = "True"
    /\ target >= 2
    /\ Cardinality(DOMAIN blocks) >= 2
    /\ \E x \in DOMAIN blocks : n_unique(blocks[x]) = target
    /\ \E x \in DOMAIN blocks : Len(blocks[x]) > n_unique(blocks[x])

\* the block files a step wrote: new names, and names whose content changed
WrittenBlocks == {x \in DOMAIN blocks' : x \notin DOMAIN blocks \/ blocks'[x] # blocks[x]}

\* C13: no split primes.  No prime has rows in two of the blocks that one pass
\* wrote, the topped-up last block included.
C13_NoSplitPrimes ==
    [][IngestDone =>
          \A x, y \in WrittenBlocks :
              x # y => PCol(blocks'[x]) \cap PCol(blocks'[y]) = {}]_vars

\* C14: deterministic chunking.  On an empty block directory a pass over run
\* files whose unique primes are p_1 < ... < p_n writes exactly ceil(n / target)
\* blocks, and the j-th block (pp_b{j}_p{its max}) holds exactly the rows of the
\* primes p_((j-1)*target+1) .. p_min(j*target, n), each row once.
Chunk(ps, T, j) == {ps[i] : i \in ((j - 1) * T + 1)..Min2(j * T, Len(ps))}
MaxForeignLen == 2

\* the rows an upstream computation or merge can leave for the largest prime
\* of the model: the worker's row, the same key with another q_k, the sentinel
ForeignRows ==
    UNION {{r, <<r[1], r[2], r[3], r[4] + 1>>, <<r[1], 0, 0, 0>>} :
              r \in Range(pp_parts(unrank(MaxPrimeIdx - 1)))}

\* the files of at most MaxForeignLen different rows
ForeignFrames ==
    UNION {Perms(S) : S \in {T \in SUBSET ForeignRows :
                                T # {} /\ Cardinality(T) <= MaxForeignLen}}

\* a parquet file of such rows lands in the run directory
ForeignRun(df) ==
    /\ Cardinality(DOMAIN runs) < MaxRunFiles
    /\ Sound
    /\ runs' = [f \in DOMAIN runs \cup {FreeRunId} |->
                    IF f = FreeRunId THEN df ELSE runs[f]]
    /\ last' = [Quiet EXCEPT !.op = "write"]
    /\ UNCHANGED <<blocks, torn, target>>

NextForeign ==
    \/ \E df \in ForeignFrames : ForeignRun(df) /\ UNCHANGED cvars /\ UNCHANGED mvars /\ UNCHANGED avars /\ UNCHANGED wk
    \/ \E d \in BOOLEAN : Ingest(d) /\ UNCHANGED cvars /\ UNCHANGED mvars /\ UNCHANGED avars /\ UNCHANGED wk

SpecForeign == Init /\ [][NextForeign]_vars

\* two records with one key (p, m_k, n_k) and different q_k, or a prime with a
\* sentinel row (p, 0, 0, 0) and a row that is none
Collision(rows) ==
    \E r, s \in rows :
        /\ r[1] = s[1]
        /\ \/ r[2] = s[2] /\ r[3] = s[3] /\ r[4] # s[4]
           \/ <<r[2], r[3], r[4]>> = <<0, 0, 0>> /\ <<s[2], s[3], s[4]>> # <<0, 0, 0>>

\* C16: a pass whose working set holds a key collision with divergent payload
\* (same (p, m_k, n_k) and different q_k, or a sentinel and a non-sentinel row
\* for one prime) never returns True with both records written to the blocks.
C16_CollisionSurfaced ==
    [][(IngestDone /\ Collision(Range(_read_all_runs(runs)))) =>
           ~Collision(AllRows(blocks'))]_vars

\* ---------------------------------------- BlockManager: truncate, rebuild,
\* reconfigure.  A call that changes files runs one file step at a time; the
\* process can be killed between two steps.  The model follows the store up to
\* the end of the first BlockManager call, so the timestamp that tells the
\* backup_{timestamp} directories of two calls apart is left out of the names:
\* kind is truncate_backup, blocks_backup or runs_backup.

ConfirmedByYesAlone(yes, dry_run) == yes

\* the guard "if dry_run or not yes: return 0", negated
Confirmed(yes, dry_run) == ~(dry_run \/ ~yes)

BackupKey(kind, name) == <<kind, "b", name>>
RunBackupKey(kind, id) == <<kind, "r", id>>

\* truncate_from_block: the files of sorted(glob('pp_b*.parquet')) whose b part
\* parses to a number >= start_block_num
truncate_from_block_files(b, start_block_num) ==
    SelectSeq(list_block_files(b),
              LAMBDA x : LET bnum == FirstPartNumber(Split(BaseName(x), <<>>), ChB)
                         IN  bnum # None /\ bnum >= start_block_num)

\* truncate_from_prime: the paths of sorted_blocks_by_data() with min_prime >= start_prime
truncate_from_prime_files(b, t, start_prime) ==
    LET infos == SelectSeq(sorted_blocks_by_data(b, t),
                           LAMBDA i : i.min_prime # None /\ i.min_prime >= start_prime)
    IN  [j \in 1..Len(infos) |-> infos[j].path]

\* a loop over files: each step of it takes one of the paths that are left
CopyStep(paths) == [act |-> "copy", paths |-> paths, rows |-> <<>>]
UnlinkStep(paths) == [act |-> "unlink", paths |-> paths, rows |-> <<>>]

TruncateStepsUnlinkFirst(to_delete) ==
    Concat([i \in 1..Len(to_delete) |->
               <<UnlinkStep({to_delete[i]}), CopyStep({to_delete[i]})>>])

\* for p in to_delete: shutil.copy2(p, backup_blocks_dir / p.name); p.unlink()
TruncateSteps(to_delete) ==
    Concat([i \in 1..Len(to_delete) |->
               <<CopyStep({to_delete[i]}), UnlinkStep({to_delete[i]})>>])

\* for file in block_files: copy2(...), then for file in block_files: file.unlink(),
\* block_files in the order glob returned them, which is any order
BackupThenClear(block_files) ==
    IF block_files = {} THEN <<>> ELSE <<CopyStep(block_files), UnlinkStep(block_files)>>

\* the loop's step is done for path
StepDone(todo, path) ==
    IF Head(todo).paths = {path} THEN Tail(todo)
    ELSE <<[Head(todo) EXCEPT !.paths = @ \ {path}]>> \o Tail(todo)

RebuildEmitsFromTwo(all_data, T) ==
    LET ops == NewBlockOps(all_data, SortedSeq(PCol(all_data)), T, 1)
    IN  [i \in 1..Len(ops) |-> [act |-> "emit", paths |-> {ops[i].path}, rows |-> ops[i].rows]]

\* the new blocks of rebuild_blocks_prefix: pp_b{block_idx+1:03d}_p{max_p} for
\* each slice of target_prime_count unique primes of the union
RebuildEmits(all_data, T) ==
    LET ops == NewBlockOps(all_data, SortedSeq(PCol(all_data)), T, 0)
    IN  [i \in 1..Len(ops) |-> [act |-> "emit", paths |-> {ops[i].path}, rows |-> ops[i].rows]]

\* no BlockManager call was made yet
Untouched == mop.pc = "idle" /\ mlast = MQuiet

\* listed: the number of blocks the call printed as "Will remove"
MCall(op, arg, yes, dry_run, listed, status, ret) ==
    [op |-> op, arg |-> arg, yes |-> yes, dry_run |-> dry_run, listed |-> listed,
     status |-> status, ret |-> ret]

\* the call returns (or raises) without having touched a file
MReturn(call) ==
    /\ mlast' = [call EXCEPT !.arg = 0]
    /\ UNCHANGED <<blocks, torn, runs, target, last, backup, bpart, mop>>

\* the call goes on to its file steps
MBegin(call, kind, steps) ==
    /\ mlast' = [call EXCEPT !.arg = 0]
    /\ mop' = [pc |-> "run", op |-> call.op, arg |-> call.arg, todo |-> steps,
               kind |-> kind, cur |-> <<0, 0>>, start |-> blocks]
    /\ UNCHANGED <<blocks, torn, runs, target, last, backup, bpart>>

\* truncate_from_block(start_block_num, yes, dry_run) up to its first file step
TruncateFromBlock(start_block_num, yes, dry_run) ==
    LET to_delete == truncate_from_block_files(blocks, start_block_num)
        call(status, ret) == MCall("truncate_from_block", start_block_num, yes, dry_run, Len(to_delete), status, ret)
    IN  /\ Untouched
        /\ cpc = "idle"
        /\ IF to_delete = <<>> THEN MReturn(call("ok", 0))
           ELSE IF ~Confirmed(yes, dry_run) THEN MReturn(call("ok", 0))
           ELSE MBegin(call("running", Len(to_delete)), "truncate_backup", TruncateSteps(to_delete))

\* truncate_from_prime(start_prime, yes, dry_run) up to its first file step
TruncateFromPrime(start_prime, yes, dry_run) ==
    LET to_delete == truncate_from_prime_files(blocks, torn, start_prime)
        call(status, ret) == MCall("truncate_from_prime", start_prime, yes, dry_run, Len(to_delete), status, ret)
    IN  /\ Untouched
        /\ cpc = "idle"
        /\ IF to_delete = <<>> THEN MReturn(call("ok", 0))
           ELSE IF ~Confirmed(yes, dry_run) THEN MReturn(call("ok", 0))
           ELSE MBegin(call("running", Len(to_delete)), "truncate_backup", TruncateSteps(to_delete))

\* rebuild_blocks_prefix(target_prime_count, include_runs=True) up to its first
\* file step; no monolithic file exists; collect() raises on a block file that
\* cannot be read
RebuildBlocksPrefix(target_prime_count) ==
    LET call(status) == MCall("rebuild_blocks_prefix", target_prime_count, FALSE, FALSE, 0, status, None)
        all_data == _dedup(ScanAll(blocks) \o _read_all_runs(runs))
    IN  /\ Untouched
        /\ cpc = "idle"
        /\ IF DOMAIN blocks = {} /\ DOMAIN runs = {} THEN MReturn(call("ok"))
           ELSE IF torn # {} THEN MReturn(call("raise"))
           ELSE MBegin(call("running"), "blocks_backup",
                       BackupThenClear(DOMAIN blocks) \o RebuildEmits(all_data, target_prime_count))

\* reconfigure_block_size(new_prime_count, dry_run) up to its first file step;
\* with dry_run the call and its convert_runs_to_blocks(dry_run=True) write nothing
ReconfigureBlockSize(new_prime_count, dry_run) ==
    LET call(status) == MCall("reconfigure_block_size", new_prime_count, FALSE, dry_run, 0, status, None)
        convert == <<[act |-> "convert", paths |-> {<<new_prime_count, 0>>}, rows |-> <<>>]>>
    IN  /\ Untouched
        /\ cpc = "idle"
        /\ IF DOMAIN blocks = {} /\ DOMAIN runs = {} THEN MReturn(call("ok"))
           ELSE IF DOMAIN blocks # {} /\ torn # {} THEN MReturn(call("raise"))
           ELSE IF dry_run THEN MReturn(call("ok"))
           ELSE IF DOMAIN blocks # {}
           THEN MBegin(call("running"), "blocks_backup", BackupThenClear(DOMAIN blocks) \o convert)
           ELSE MBegin(call("running"), "blocks_backup",
                       <<[act |-> "copyrun", paths |-> {<<i, 0>> : i \in DOMAIN runs},
                          rows |-> <<>>]>> \o convert)

MRaise ==
    /\ mlast' = [mlast EXCEPT !.status = "raise"]
    /\ mop' = MIdle
    /\ UNCHANGED <<blocks, torn, runs, target, last, backup, bpart>>

\* shutil.copy2(p, backup_blocks_dir / p.name) opens its target: the backup
\* file exists and is not complete
MCopyBegin ==
    /\ mop.pc = "run" /\ mop.todo # <<>> /\ Head(mop.todo).act = "copy"
    /\ \E path \in Head(mop.todo).paths :
          LET key == BackupKey(mop.kind, path)
          IN  IF path \notin DOMAIN blocks THEN MRaise
              ELSE /\ backup' = [k \in DOMAIN backup \cup {key} |->
                                    IF k = key THEN <<>> ELSE backup[k]]
                   /\ bpart' = bpart \cup {key}
                   /\ mop' = [mop EXCEPT !.pc = "copying", !.cur = path]
                   /\ UNCHANGED <<blocks, torn, runs, target, last, mlast>>

\* shutil.copy2 returns: the backup file holds what the block file holds
MCopyEnd ==
    LET key == BackupKey(mop.kind, mop.cur)
    IN  /\ mop.pc = "copying"
        /\ backup' = [backup EXCEPT ![key] = blocks[mop.cur]]
        /\ bpart' = bpart \ {key}
        /\ mop' = [mop EXCEPT !.pc = "run", !.cur = <<0, 0>>,
                              !.todo = StepDone(mop.todo, mop.cur)]
        /\ UNCHANGED <<blocks, torn, runs, target, last, mlast>>

\* reconfigure_block_size with run files as its source: one run file is copied
MCopyRun ==
    /\ mop.pc = "run" /\ mop.todo # <<>> /\ Head(mop.todo).act = "copyrun"
    /\ \E path \in Head(mop.todo).paths :
          LET key == RunBackupKey(mop.kind, path[1])
          IN  /\ backup' = [k \in DOMAIN backup \cup {key} |->
                               IF k = key THEN runs[path[1]] ELSE backup[k]]
              /\ mop' = [mop EXCEPT !.todo = StepDone(mop.todo, path)]
    /\ UNCHANGED <<blocks, torn, runs, target, last, bpart, mlast>>

\* p.unlink()
MUnlink ==
    /\ mop.pc = "run" /\ mop.todo # <<>> /\ Head(mop.todo).act = "unlink"
    /\ \E path \in Head(mop.todo).paths :
          IF path \notin DOMAIN blocks THEN MRaise
          ELSE /\ blocks' = [x \in DOMAIN blocks \ {path} |-> blocks[x]]
               /\ torn' = torn \ {path}
               /\ mop' = [mop EXCEPT !.todo = StepDone(mop.todo, path)]
               /\ UNCHANGED <<runs, target, last, backup, bpart, mlast>>

\* block_df.write_parquet(out_path) opens out_path
MEmitBegin ==
    LET step == Head(mop.todo)
        path == CHOOSE x \in step.paths : TRUE
    IN  /\ mop.pc = "run" /\ mop.todo # <<>> /\ step.act = "emit"
        /\ \E df \in Unique(step.rows) :
              mop' = [mop EXCEPT !.pc = "emitting", !.cur = path,
                                 !.todo = <<[step EXCEPT !.rows = df]>> \o Tail(mop.todo)]
        /\ blocks' = PutFile(blocks, path, <<>>)
        /\ torn' = torn \cup {path}
        /\ UNCHANGED <<runs, target, last, backup, bpart, mlast>>

\* write_parquet returns
MEmitEnd ==
    LET step == Head(mop.todo)
    IN  /\ mop.pc = "emitting"
        /\ blocks' = PutFile(blocks, mop.cur, step.rows)
        /\ torn' = torn \ {mop.cur}
        /\ mop' = [mop EXCEPT !.pc = "run", !.cur = <<0, 0>>, !.todo = Tail(mop.todo)]
        /\ UNCHANGED <<runs, target, last, backup, bpart, mlast>>

\* convert_runs_to_blocks(new_prime_count, dry_run=False) at the end of
\* reconfigure_block_size: returns when there is no run file, else copies the
\* run files to runs_backup_{timestamp} and writes the blocks of the run data
MConvert ==
    LET step == Head(mop.todo)
        T == (CHOOSE x \in step.paths : TRUE)[1]
        all_data == StableSortP(_read_all_runs(runs))
        copies == {RunBackupKey("runs_backup", i) : i \in DOMAIN runs}
    IN  /\ mop.pc = "run" /\ mop.todo # <<>> /\ step.act = "convert"
        /\ IF DOMAIN runs = {}
           THEN UNCHANGED <<blocks, backup>>
           ELSE /\ backup' = [k \in DOMAIN backup \cup copies |->
                                 IF k \in copies THEN runs[k[3]] ELSE backup[k]]
                /\ blocks' \in PlanOutcomes(blocks, PlanOps(blocks, all_data, T))
        /\ mop' = [mop EXCEPT !.todo = Tail(mop.todo)]
        /\ UNCHANGED <<torn, runs, target, last, bpart, mlast>>

\* the call returns
MFinish ==
    /\ mop.pc = "run" /\ mop.todo = <<>>
    /\ mlast' = [mlast EXCEPT !.status = "ok"]
    /\ mop' = MIdle
    /\ UNCHANGED <<blocks, torn, runs, target, last, backup, bpart>>

\* the process of the call is killed
MCrash ==
    /\ mop.pc # "idle"
    /\ mlast' = [mlast EXCEPT !.status = "killed"]
    /\ mop' = MIdle
    /\ UNCHANGED <<blocks, torn, runs, target, last, backup, bpart>>

\* the store is filled by workers that write the batch after the last known
\* prime, and by passes
NextRepair ==
    \/ \E n \in 1..MaxBatch :
          Untouched /\ WriteRun(Known, n) /\ UNCHANGED cvars /\ UNCHANGED mvars /\ UNCHANGED avars /\ UNCHANGED wk
    \/ \E d \in BOOLEAN : Untouched /\ Ingest(d) /\ UNCHANGED cvars /\ UNCHANGED mvars /\ UNCHANGED avars /\ UNCHANGED wk
    \/ \E n \in 1..MaxPrimeIdx : \E yes, dry_run \in BOOLEAN :
          TruncateFromBlock(n, yes, dry_run) /\ UNCHANGED cvars /\ UNCHANGED avars /\ UNCHANGED wk
    \/ \E P \in 2..unrank(MaxPrimeIdx - 1) : \E yes, dry_run \in BOOLEAN :
          TruncateFromPrime(P, yes, dry_run) /\ UNCHANGED cvars /\ UNCHANGED avars /\ UNCHANGED wk
    \/ \E T \in 1..MaxTarget : RebuildBlocksPrefix(T) /\ UNCHANGED cvars /\ UNCHANGED avars /\ UNCHANGED wk
    \/ \E T \in 1..MaxTarget : \E dry_run \in BOOLEAN :
          ReconfigureBlockSize(T, dry_run) /\ UNCHANGED cvars /\ UNCHANGED avars /\ UNCHANGED wk
    \/ MCopyBegin /\ UNCHANGED cvars /\ UNCHANGED avars /\ UNCHANGED wk
    \/ MCopyEnd /\ UNCHANGED cvars /\ UNCHANGED avars /\ UNCHANGED wk
    \/ MCopyRun /\ UNCHANGED cvars /\ UNCHANGED avars /\ UNCHANGED wk
    \/ MUnlink /\ UNCHANGED cvars /\ UNCHANGED avars /\ UNCHANGED wk
    \/ MEmitBegin /\ UNCHANGED cvars /\ UNCHANGED avars /\ UNCHANGED wk
    \/ MEmitEnd /\ UNCHANGED cvars /\ UNCHANGED avars /\ UNCHANGED wk
    \/ MConvert /\ UNCHANGED cvars /\ UNCHANGED avars /\ UNCHANGED wk
    \/ MFinish /\ UNCHANGED cvars /\ UNCHANGED avars /\ UNCHANGED wk
    \/ MCrash /\ UNCHANGED cvars /\ UNCHANGED avars /\ UNCHANGED wk

SpecRepair == Init /\ [][NextRepair]_vars

\* the same with truncate_from_block and truncate_from_prime as the only calls
NextTruncate ==
    \/ \E n \in 1..MaxBatch :
          Untouched /\ WriteRun(Known, n) /\ UNCHANGED cvars /\ UNCHANGED mvars /\ UNCHANGED avars /\ UNCHANGED wk
    \/ \E d \in BOOLEAN : Untouched /\ Ingest(d) /\ UNCHANGED cvars /\ UNCHANGED mvars /\ UNCHANGED avars /\ UNCHANGED wk
    \/ \E n \in 1..MaxPrimeIdx : \E yes, dry_run \in BOOLEAN :
          TruncateFromBlock(n, yes, dry_run) /\ UNCHANGED cvars /\ UNCHANGED avars /\ UNCHANGED wk
    \/ \E P \in 2..unrank(MaxPrimeIdx - 1) : \E yes, dry_run \in BOOLEAN :
          TruncateFromPrime(P, yes, dry_run) /\ UNCHANGED cvars /\ UNCHANGED avars /\ UNCHANGED wk
    \/ MCopyBegin /\ UNCHANGED cvars /\ UNCHANGED avars /\ UNCHANGED wk
    \/ MCopyEnd /\ UNCHANGED cvars /\ UNCHANGED avars /\ UNCHANGED wk
    \/ MUnlink /\ UNCHANGED cvars /\ UNCHANGED avars /\ UNCHANGED wk
    \/ MFinish /\ UNCHANGED cvars /\ UNCHANGED avars /\ UNCHANGED wk
    \/ MCrash /\ UNCHANGED cvars /\ UNCHANGED avars /\ UNCHANGED wk

SpecTruncate == Init /\ [][NextTruncate]_vars


\* C17: truncate_from_block and truncate_from_prime called without yes or with
\* dry_run delete no file, write no backup, leave the block directory and the
\* backup directory as they are and return 0.
C17_UnconfirmedTruncateInert ==
    [][(/\ mlast.op = "init"
        /\ mlast'.op \in {"truncate_from_block", "truncate_from_prime"}
        /\ (mlast'.dry_run \/ ~mlast'.yes)) =>
           /\ blocks' = blocks
           /\ torn' = torn
           /\ backup' = backup
           /\ bpart' = bpart
           /\ mop'.pc = "idle"
           /\ mlast'.status = "ok"
           /\ mlast'.ret = 0]_vars

\* a truncate that listed blocks to remove has returned 0 and every block is there
C17_Witness ==
    /\ mlast.op \in {"truncate_from_block", "truncate_from_prime"}
    /\ mlast.dry_run \/ ~mlast.yes
    /\ mlast.status = "ok"
    /\ mlast.listed >= 1
    /\ mlast.ret = 0
    /\ Cardinality(DOMAIN blocks) >= 2
    /\ DOMAIN backup = {}

\* C18: a confirmed truncate_from_prime(P) that returns leaves no block that
\* holds a prime >= P: the block whose prime range contains P is deleted too.
C18_TruncateAtBoundary ==
    [][/\ \A P \in 2..unrank(MaxPrimeIdx - 1) :
             (mlast.op = "init" /\ mop'.pc = "idle" /\ TruncateFromPrime(P, TRUE, FALSE)) =>
                 \A p \in AllPrimes(blocks') : p < P
       /\ (/\ mop.op = "truncate_from_prime"
           /\ MFinish) =>
                 \A p \in AllPrimes(blocks') : p < mop.arg]_vars

\* C19: while a confirmed truncate, a rebuild or a non-dry-run reconfigure runs,
\* at every step of it, every block file that existed when the call started is
\* in the block directory with its content or, as a complete copy, in the
\* call's backup directory.
C19_BackupBeforeDelete ==
    mop.pc # "idle" =>
        \A x \in DOMAIN mop.start :
            \/ x \in DOMAIN blocks /\ blocks[x] = mop.start[x]
            \/ /\ <<mop.kind, "b", x>> \in DOMAIN backup
               /\ <<mop.kind, "b", x>> \notin bpart
               /\ backup[<<mop.kind, "b", x>>] = mop.start[x]

\* a truncate has deleted one block and is copying the next
C19_Witness ==
    /\ mop.op \in {"truncate_from_block", "truncate_from_prime"}
    /\ mop.pc = "copying"
    /\ \E x \in DOMAIN mop.start : x \notin DOMAIN blocks

\* C20: rebuild_blocks_prefix and reconfigure_block_size called with no more
\* than their required argument (neither takes a confirmation, and dry_run is
\* False unless given) delete or rewrite no block file: while such a call runs,
\* every block file that existed when it started is in place with its content.
C20_RepairNeedsConfirmation ==
    mop.op \in {"rebuild_blocks_prefix", "reconfigure_block_size"} =>
        \A x \in DOMAIN mop.start : x \in DOMAIN blocks /\ blocks[x] = mop.start[x]

\* the same with rebuild_blocks_prefix as the only call
NextRebuild ==
    \/ \E n \in 1..MaxBatch :
          Untouched /\ WriteRun(Known, n) /\ UNCHANGED cvars /\ UNCHANGED mvars /\ UNCHANGED avars /\ UNCHANGED wk
    \/ \E d \in BOOLEAN : Untouched /\ Ingest(d) /\ UNCHANGED cvars /\ UNCHANGED mvars /\ UNCHANGED avars /\ UNCHANGED wk
    \/ \E T \in 1..MaxTarget : RebuildBlocksPrefix(T) /\ UNCHANGED cvars /\ UNCHANGED avars /\ UNCHANGED wk
    \/ MCopyBegin /\ UNCHANGED cvars /\ UNCHANGED avars /\ UNCHANGED wk
    \/ MCopyEnd /\ UNCHANGED cvars /\ UNCHANGED avars /\ UNCHANGED wk
    \/ MUnlink /\ UNCHANGED cvars /\ UNCHANGED avars /\ UNCHANGED wk
    \/ MEmitBegin /\ UNCHANGED cvars /\ UNCHANGED avars /\ UNCHANGED wk
    \/ MEmitEnd /\ UNCHANGED cvars /\ UNCHANGED avars /\ UNCHANGED wk
    \/ MFinish /\ UNCHANGED cvars /\ UNCHANGED avars /\ UNCHANGED wk
    \/ MCrash /\ UNCHANGED cvars /\ UNCHANGED avars /\ UNCHANGED wk

SpecRebuild == Init /\ [][NextRebuild]_vars

\* ---------------------------------------------------------- rebuild (claims)
\* the block directory a rebuild that returns normally started from
RebuildReturns ==
    /\ mlast'.op = "rebuild_blocks_prefix"
    /\ mlast'.status = "ok"
    /\ mop'.pc = "idle"
    /\ mlast.status # "ok"
RebuildFrom == IF mop.pc = "idle" THEN blocks ELSE mop.start
RebuildTarget == IF mop.pc = "idle" THEN target ELSE mop.arg

C22_GapNamesBothBlocks ==
    LET cat == sorted_blocks_by_data(blocks, torn)
        chk == prefix_check(blocks, torn)
        aud == audit_boundaries(blocks, torn)
        flagged == {aud[j].file : j \in {k \in 1..Len(aud) : aud[k].status = "gap"}}
    IN  \A i \in 1..(Len(cat) - 1) :
            (cat[i].max_prime # None /\ cat[i + 1].min_prime # None) =>
                LET isgap == cat[i + 1].min_prime # next_prime(cat[i].max_prime)
                    entry == <<cat[i].max_prime, cat[i + 1].min_prime,
                               next_prime(cat[i].max_prime)>>
                IN  /\ isgap <=> entry \in Range(chk.gaps)
                    /\ isgap <=> aud[i + 1].status = "gap"
                    /\ isgap => {cat[i].path, cat[i + 1].path} \subseteq flagged

\* the same without the names: both reports flag exactly the pairs with a gap
C22_GapExactlyWhen ==
    LET cat == sorted_blocks_by_data(blocks, torn)
        chk == prefix_check(blocks, torn)
        aud == audit_boundaries(blocks, torn)
    IN  \A i \in 1..(Len(cat) - 1) :
            (cat[i].max_prime # None /\ cat[i + 1].min_prime # None) =>
                LET isgap == cat[i + 1].min_prime # next_prime(cat[i].max_prime)
                    entry == <<cat[i].max_prime, cat[i + 1].min_prime,
                               next_prime(cat[i].max_prime)>>
                IN  /\ isgap <=> entry \in Range(chk.gaps)
                    /\ isgap <=> aud[i + 1].status = "gap"

\* C23: detect_overlaps_between_blocks has an entry for two blocks that follow
\* one another in content order exactly when their sets of primes intersect,
\* and the entry's overlap_primes is the number of distinct primes that both
\* blocks hold, also when a shared prime has several rows in either block.
C23_OverlapCountsPrimes ==
    LET cat == sorted_blocks_by_data(blocks, torn)
        rep == detect_overlaps_between_blocks(blocks, torn)
    IN  \A i \in 1..(Len(cat) - 1) :
            LET x == cat[i].path
                y == cat[i + 1].path
                shared == PCol(blocks[x]) \cap PCol(blocks[y])
                hits == {j \in 1..Len(rep) : rep[j].block_a = x /\ rep[j].block_b = y}
            IN  (x \notin torn /\ y \notin torn) =>
                    /\ shared # {} <=> hits # {}
                    /\ \A j \in hits : rep[j].overlap_primes = Cardinality(shared)

\* ------------------------------------------------- first-divergence audit
MaxAuditP == 7        \* the audited blocks hold p values of 2..MaxAuditP

\* pl.scan_parquet(pattern).select('p').unique().sort('p')
_lazy_unique_sorted_primes(b) == SortedSeq(PCol(ScanAll(b)))

\* lf.slice(idx, 1).collect()['p'].item(), idx counted from 0
_prime_at_index(lf, idx) == lf[idx + 1]

\* while lo < hi: mid = (lo + hi) // 2; ... ; the value of lo when the loop ends
RECURSIVE BinarySearch(_, _, _)
BinarySearch(lf, lo, hi) ==
    IF lo >= hi THEN lo
    ELSE LET mid == (lo + hi) \div 2
         IN  IF _prime_at_index(lf, mid) = unrank(mid)
             THEN BinarySearch(lf, mid + 1, hi)
             ELSE BinarySearch(lf, lo, mid)

\* a search that moves hi down by one on a mismatch
RECURSIVE BinarySearchLinear(_, _, _, _)
BinarySearchLinear(lf, lo, hi, n) ==
    IF lo >= hi THEN [lo |-> lo, iterations |-> n]
    ELSE LET mid == (lo + hi) \div 2
         IN  IF _prime_at_index(lf, mid) = unrank(mid)
             THEN BinarySearchLinear(lf, mid + 1, hi, n + 1)
             ELSE BinarySearchLinear(lf, lo, hi - 1, n + 1)

\* the same loop with its turns counted: n turns were taken before
RECURSIVE BinarySearchRun(_, _, _, _)
BinarySearchRun(lf, lo, hi, n) ==
    IF lo >= hi THEN [lo |-> lo, iterations |-> n]
    ELSE LET mid == (lo + hi) \div 2
         IN  IF _prime_at_index(lf, mid) = unrank(mid)
             THEN BinarySearchRun(lf, mid + 1, hi, n + 1)
             ELSE BinarySearchRun(lf, lo, mid, n + 1)

\* the empty dict, and the dict with index, data_prime and expected_prime
NoMismatch == [index |-> None, data_prime |-> None, expected_prime |-> None]
Mismatch(lf, i) == [index |-> i, data_prime |-> _prime_at_index(lf, i),
                    expected_prime |-> unrank(i)]

audit_prefix_first_mismatch(b) ==
    LET lf == _lazy_unique_sorted_primes(b)
        total == Len(lf)
        lo == BinarySearch(lf, 0, total - 1)
    IN  IF total = 0 THEN NoMismatch
        ELSE IF _prime_at_index(lf, 0) # unrank(0) THEN Mismatch(lf, 0)
        ELSE IF _prime_at_index(lf, lo) # unrank(lo) THEN Mismatch(lf, lo)
        ELSE NoMismatch

\* block directories whose p column is any set of numbers, primes or not, in
\* one block or cut into two blocks; each p in one row
AuditRows(ps) == [i \in 1..Len(ps) |-> <<ps[i], 0, 0, 0>>]
AuditStores ==
    {[x \in {} |-> <<>>]} \cup
    UNION {LET ps == SortedSeq(S)
           IN  {IF k = Len(ps)
                THEN [x \in {<<1, ps[k]>>} |-> AuditRows(ps)]
                ELSE [x \in {<<1, ps[k]>>, <<2, ps[Len(ps)]>>} |->
                         IF x[1] = 1 THEN AuditRows(SubSeq(ps, 1, k))
                         ELSE AuditRows(SubSeq(ps, k + 1, Len(ps)))] : k \in 1..Len(ps)}
           : S \in (SUBSET (2..MaxAuditP)) \ {{}}}

InitAudit ==
    /\ blocks \in AuditStores
    /\ torn = {}
    /\ runs = NoRuns
    /\ target \in 1..MaxTarget
    /\ last = Quiet
    /\ cpc = "idle"
    /\ cread = {}
    /\ cplan = <<>>
    /\ cdel = FALSE
    /\ backup = NoBackup
    /\ bpart = {}
    /\ mop = MIdle
    /\ mlast = MQuiet
    /\ datafiles = NoRuns
    /\ now = 0
    /\ handed = <<>>
    /\ wk = WIdle

\* main --audit-prefix; scan_parquet raises when the pattern matches no file
AuditPrefix ==
    /\ Untouched
    /\ mlast' = IF DOMAIN blocks = {}
                THEN MCall("audit_prefix_first_mismatch", 0, FALSE, FALSE, 0, "raise", NoMismatch)
                ELSE MCall("audit_prefix_first_mismatch", 0, FALSE, FALSE, 0, "ok",
                           audit_prefix_first_mismatch(blocks))
    /\ UNCHANGED <<blocks, torn, runs, target, last, backup, bpart, mop>>

NextAudit == AuditPrefix /\ UNCHANGED cvars /\ UNCHANGED avars /\ UNCHANGED wk

SpecAudit == InitAudit /\ [][NextAudit]_vars

\* C24: audit_prefix_first_mismatch returns the smallest index i at which the
\* i-th element of the sorted, deduplicated p values of all blocks differs from
\* nth(i), with both values, and the empty result exactly when that sequence is
\* the first K primes; for every content, p values that are no primes or that
\* skip primes included.
C24_FirstMismatch ==
    (mlast.op = "audit_prefix_first_mismatch" /\ mlast.status = "ok") =>
        LET view == SortedSeq(AllPrimes(blocks))
            differ == {i \in 0..(Len(view) - 1) : view[i + 1] # unrank(i)}
        IN  IF differ = {} THEN mlast.ret = NoMismatch
            ELSE mlast.ret = [index |-> SetMin(differ),
                              data_prime |-> view[SetMin(differ) + 1],
                              expected_prime |-> unrank(SetMin(differ))]

\* the same for p columns that hold primes only
C24_FirstMismatchOfPrimes ==
    (/\ mlast.op = "audit_prefix_first_mismatch"
     /\ mlast.status = "ok"
     /\ \A p \in AllPrimes(blocks) : IsPrime(p)) => C24_FirstMismatch

\* ------------------------------------------- append_data(use_separate_runs=True)
MaxClock == 1         \* the wall clock runs over the seconds 0..MaxClock
MaxWrites == 2        \* calls of append_data in one behaviour
MaxWriters == 2       \* processes that call append_data

\* f"pparts_run_{timestamp}.parquet" with timestamp = now.strftime("%Y%m%d_%H%M%S"):
\* the second of the call, nothing of the calling process
RunFileName(pid, t) == t

\* append_data(df, use_separate_runs=True) called by process pid:
\* df.write_parquet(get_data_dir() / run file name)
AppendData(pid, df) ==
    /\ Len(handed) < MaxWrites
    /\ datafiles' = PutFile(datafiles, RunFileName(pid, now), df)
    /\ handed' = Append(handed, df)
    /\ last' = [Quiet EXCEPT !.op = "append"]
    /\ UNCHANGED <<blocks, torn, runs, target, now>>

\* a second passes
Tick ==
    /\ now < MaxClock
    /\ now' = now + 1
    /\ UNCHANGED <<blocks, torn, runs, target, last, datafiles, handed>>

NextAppend ==
    \/ \E pid \in 1..MaxWriters : \E i \in 0..(MaxPrimeIdx - 1) :
          AppendData(pid, process_batch(BatchFrom(i, 1))) /\ UNCHANGED cvars /\ UNCHANGED mvars /\ UNCHANGED wk
    \/ Tick /\ UNCHANGED cvars /\ UNCHANGED mvars /\ UNCHANGED wk
    \/ \E d \in BOOLEAN : Ingest(d) /\ UNCHANGED cvars /\ UNCHANGED mvars /\ UNCHANGED avars /\ UNCHANGED wk

SpecAppend == Init /\ [][NextAppend]_vars

\* C25: two run-file writes of append_data(use_separate_runs=True) never use
\* the same file name: every write adds a file and overwrites none, also two
\* writes within one second and writes by different processes.
C25_UniqueRunNames ==
    [][Len(handed') > Len(handed) =>
          /\ DOMAIN datafiles' # DOMAIN datafiles
          /\ \A f \in DOMAIN datafiles : datafiles'[f] = datafiles[f]]_vars

\* C29: every run file of append_data(use_separate_runs=True) is in the run
\* directory that the Compactor reads: after the next integrate_runs_into_blocks
\* every record handed to append_data is stored in some block.
C29_RunsReachBlocks ==
    [][(last'.op = "ingest" /\ last.op = "append") =>
          \A i \in 1..Len(handed) : Range(handed[i]) \subseteq AllRows(blocks')]_vars

\* rows in non-decreasing order of p
IsSortedP(df) == \A i \in 1..(Len(df) - 1) : df[i][1] <= df[i + 1][1]

\* C26: every block file that integrate_runs_into_blocks or rebuild_blocks_prefix
\* wrote or rewrote has its rows in non-decreasing order of p (unique on the key
\* columns returns the rows it keeps in any order).
C26_BlocksSortedByP ==
    [][((IngestDone /\ mop.pc = "idle" /\ mlast' = mlast) \/ mop.pc = "emitting") =>
          \A x \in WrittenBlocks : x \notin torn' => IsSortedP(blocks'[x])]_vars

\* ------------------------------------------------ run files in any order
\* a worker's run file for the batch nth(i) .. nth(i + n - 1) lands in the run
\* directory whenever the worker is done: batches of larger primes may arrive,
\* and be ingested, before batches of smaller ones
WriteRunAnyOrder(i, n) ==
    /\ i + n <= MaxPrimeIdx
    /\ Cardinality(DOMAIN runs) < MaxRunFiles
    /\ Sound
    /\ runs' = [f \in DOMAIN runs \cup {FreeRunId} |->
                    IF f = FreeRunId THEN process_batch(BatchFrom(i, n)) ELSE runs[f]]
    /\ last' = [Quiet EXCEPT !.op = "write"]
    /\ UNCHANGED <<blocks, torn, target>>

NextAnyOrder ==
    \/ \E i \in 0..(MaxPrimeIdx - 1) : \E n \in 1..MaxBatch :
          WriteRunAnyOrder(i, n) /\ UNCHANGED cvars /\ UNCHANGED mvars /\ UNCHANGED avars /\ UNCHANGED wk
    \/ \E d \in BOOLEAN : Ingest(d) /\ UNCHANGED cvars /\ UNCHANGED mvars /\ UNCHANGED avars /\ UNCHANGED wk

SpecAnyOrder == Init /\ [][NextAnyOrder]_vars

\* the blocks whose content-derived max_prime is the largest
ContentLast(b, t) ==
    {x \in DOMAIN b : /\ ContentMax(b, t, x) # None
                      /\ \A y \in DOMAIN b : ContentMax(b, t, y) <= ContentMax(b, t, x)}

\* C27: the block that a pass tests for spare capacity and tops up is the block
\* with the largest content-derived max_prime, also when the file-name order of
\* the blocks is not their content order: a block that is not content-last is
\* neither rewritten nor renamed by a pass.
C27_TopUpContentLast ==
    [][IngestDone =>
          \A x \in DOMAIN blocks \ ContentLast(blocks, torn) :
              x \in DOMAIN blocks' /\ blocks'[x] = blocks[x]]_vars

\* ------------------------------------------- a pass whose block write raises
\* write_parquet or rename raises (no space, no permission): the exception
\* leaves integrate_runs_into_blocks; a file whose write had begun stays as it is
CRaise ==
    /\ cpc \in {"write", "writing", "rename"}
    /\ last' = [last EXCEPT !.ret = "raise"]
    /\ Idle
    /\ UNCHANGED <<blocks, torn, runs, target>>

\* passes run one file step at a time; workers write between passes
NextPass ==
    \/ \E n \in 1..MaxBatch :
          cpc = "idle" /\ WriteRun(Known, n) /\ UNCHANGED cvars /\ UNCHANGED mvars /\ UNCHANGED avars /\ UNCHANGED wk
    \/ \E d \in BOOLEAN : CStart(d) /\ UNCHANGED mvars /\ UNCHANGED avars /\ UNCHANGED wk
    \/ CBeginWrite /\ UNCHANGED mvars /\ UNCHANGED avars /\ UNCHANGED wk
    \/ CEndWrite /\ UNCHANGED mvars /\ UNCHANGED avars /\ UNCHANGED wk
    \/ CRename /\ UNCHANGED mvars /\ UNCHANGED avars /\ UNCHANGED wk
    \/ CFinish /\ UNCHANGED mvars /\ UNCHANGED avars /\ UNCHANGED wk
    \/ CRaise /\ UNCHANGED mvars /\ UNCHANGED avars /\ UNCHANGED wk

SpecPass == Init /\ [][NextPass]_vars

\* C28: in a pass with delete_run_files=True no run file is deleted before
\* every block write and rename of the pass has completed (nothing left to
\* write, no file half written, the deleted files' rows in the blocks); when a
\* block write raises, the pass ends with every run file still present.
C28_DeleteAfterWrites ==
    [][/\ (\E f \in DOMAIN runs : f \notin DOMAIN runs') =>
              /\ cdel
              /\ cplan = <<>>
              /\ torn = {}
              /\ \A f \in DOMAIN runs \ DOMAIN runs' : Range(runs[f]) \subseteq AllRows(blocks)
       /\ (cpc # "idle" /\ last'.ret = "raise") =>
              /\ cpc' = "idle"
              /\ runs' = runs
              /\ DOMAIN runs # {}]_vars

\* a pass with delete_run_files=True has topped up a block, renamed it, written
\* a new block and deleted its run files
C28_Witness ==
    /\ last.op = "ingest"
    /\ last.ret = "True"
    /\ last.del
    /\ last.k >= 1
    /\ cpc = "idle"
    /\ runs = NoRuns
    /\ Cardinality(DOMAIN blocks) >= 2
    /\ target >= 2

\* --------------------------- passes, a truncate or a rebuild, and passes again
\* as NextRepair, with run files arriving in any order, and with workers and
\* passes going on after the BlockManager call has returned
NextSequence ==
    \/ \E i \in 0..(MaxPrimeIdx - 1) : \E n \in 1..MaxBatch :
          mop.pc = "idle" /\ WriteRunAnyOrder(i, n) /\ UNCHANGED cvars /\ UNCHANGED mvars /\ UNCHANGED avars /\ UNCHANGED wk
    \/ \E d \in BOOLEAN :
          mop.pc = "idle" /\ Ingest(d) /\ UNCHANGED cvars /\ UNCHANGED mvars /\ UNCHANGED avars /\ UNCHANGED wk
    \/ \E n \in 1..MaxPrimeIdx :
          TruncateFromBlock(n, TRUE, FALSE) /\ UNCHANGED cvars /\ UNCHANGED avars /\ UNCHANGED wk
    \/ \E P \in 2..unrank(MaxPrimeIdx - 1) :
          TruncateFromPrime(P, TRUE, FALSE) /\ UNCHANGED cvars /\ UNCHANGED avars /\ UNCHANGED wk
    \/ RebuildBlocksPrefix(target) /\ UNCHANGED cvars /\ UNCHANGED avars /\ UNCHANGED wk
    \/ MCopyBegin /\ UNCHANGED cvars /\ UNCHANGED avars /\ UNCHANGED wk
    \/ MCopyEnd /\ UNCHANGED cvars /\ UNCHANGED avars /\ UNCHANGED wk
    \/ MUnlink /\ UNCHANGED cvars /\ UNCHANGED avars /\ UNCHANGED wk
    \/ MEmitBegin /\ UNCHANGED cvars /\ UNCHANGED avars /\ UNCHANGED wk
    \/ MEmitEnd /\ UNCHANGED cvars /\ UNCHANGED avars /\ UNCHANGED wk
    \/ MFinish /\ UNCHANGED cvars /\ UNCHANGED avars /\ UNCHANGED wk

SpecSequence == Init /\ [][NextSequence]_vars

\* the sequence numbers in the names of the block files
SeqNumbers(b) == {x[1] : x \in DOMAIN b}

\* C30: after any sequence of passes, confirmed truncates and rebuilds no two
\* block files carry the same sequence number; no write of a pass lands on the
\* path of an existing block other than the block it tops up; and every block
\* file a pass adds carries a sequence number that is at least (for the renamed
\* topped-up block) or larger than (for a new block) every number in use before.
C30_SequenceNumbers ==
    [][/\ mop'.pc = "idle" =>
              \A x, y \in DOMAIN blocks' : x # y => x[1] # y[1]
       /\ (IngestDone /\ mop.pc = "idle" /\ mlast' = mlast /\ DOMAIN blocks # {}) =>
              LET files == list_block_files(blocks)
                  last_block == files[Len(files)]
              IN  /\ \A x \in DOMAIN blocks \ {last_block} :
                        x \in DOMAIN blocks' /\ blocks'[x] = blocks[x]
                  /\ \A y \in DOMAIN blocks' \ DOMAIN blocks :
                        y[1] >= SetMax(SeqNumbers(blocks))]_vars

\* ------------------------------------------------- prefix summaries (C31)
\* the loop of the summaries printed after a rebuild and by --integrate-check:
\* a gap entry is appended whenever a block's min_prime is greater than the
\* max_prime seen before it
RECURSIVE SummaryLoop(_, _, _, _, _)
SummaryLoop(infos, i, cumulative, prev_max, acc) ==
    IF i > Len(infos) THEN acc
    ELSE LET info == infos[i]
             uniq == IF info.num_unique_primes = None THEN 0 ELSE info.num_unique_primes
             cum == cumulative + uniq
             expected_max == IF cum > 0 THEN unrank(cum - 1) ELSE None
             mis == /\ expected_max # None
                    /\ info.max_prime # None
                    /\ expected_max # info.max_prime
             gap == /\ prev_max # None
                    /\ info.min_prime # None
                    /\ info.min_prime > prev_max
         IN  SummaryLoop(infos, i + 1, cum,
                 IF info.max_prime # None THEN info.max_prime ELSE prev_max,
                 [gaps |-> IF gap THEN Append(acc.gaps, <<prev_max, info.min_prime>>)
                           ELSE acc.gaps,
                  mismatches |-> IF mis THEN Append(acc.mismatches, info.path)
                                 ELSE acc.mismatches])

\* the final prefix check of rebuild_blocks_prefix
rebuild_final_check(b, t) ==
    SummaryLoop(sorted_blocks_by_data(b, t), 1, 0, None,
                [gaps |-> <<>>, mismatches |-> <<>>])

\* the prefix summary of --integrate-check (it collects gaps only)
integrate_check_summary(b, t) ==
    SummaryLoop(sorted_blocks_by_data(b, t), 1, 0, None,
                [gaps |-> <<>>, mismatches |-> <<>>]).gaps

\* C31: when the blocks are a correct prime prefix spread over two or more
\* blocks, the prefix check at the end of rebuild_blocks_prefix and the prefix
\* summary of --integrate-check report no gap and no mismatch.
C31_SummariesQuietOnPrefix ==
    (PrefixK(blocks, torn) >= 1 /\ Cardinality(DOMAIN blocks) >= 2) =>
        /\ rebuild_final_check(blocks, torn).gaps = <<>>
        /\ rebuild_final_check(blocks, torn).mismatches = <<>>
        /\ integrate_check_summary(blocks, torn) = <<>>

\* the mismatch half alone: on a correct prefix the final check of a rebuild
\* reports no mismatch
C31_NoMismatchOnPrefix ==
    (PrefixK(blocks, torn) >= 1 /\ Cardinality(DOMAIN blocks) >= 2) =>
        rebuild_final_check(blocks, torn).mismatches = <<>>

\* --------------------------------------------------- reconfigure (C32)
\* a reconfigure_block_size call that began from a store with blocks returns
ReconfigureReturns ==
    /\ mop.pc = "run" /\ mop.op = "reconfigure_block_size"
    /\ DOMAIN mop.start # {}
    /\ mlast'.status = "ok" /\ mop'.pc = "idle"

\* C32: after a reconfigure_block_size(new_T) without dry_run on a store that
\* has blocks, the block directory holds exactly the rows it held before, in
\* blocks of at most new_T primes each; no stored record is missing, whether
\* run files exist or not.
C32_ReconfigureKeepsRows ==
    [][ReconfigureReturns =>
          /\ AllRows(blocks') = AllRows(mop.start)
          /\ \A x \in DOMAIN blocks' : n_unique(blocks'[x]) <= mop.arg]_vars

\* the block size alone: every block present after the call has at most new_T
\* primes
C32_ReconfigureBlockSize ==
    [][ReconfigureReturns =>
          \A x \in DOMAIN blocks' : n_unique(blocks'[x]) <= mop.arg]_vars

\* --------------------------------------------------- fresh start (C33)
\* the files that clear_existing_data(use_separate_runs=True) unlinks: the
\* entries of the data directory itself that match pp_b*.parquet.  The glob
\* is not recursive, the data directory holds the pparts_run_{timestamp}
\* files of append_data, and the blocks are in its sub-directory blocks/.
clear_existing_data(d) == {f \in DOMAIN d : FALSE}

\* setup_analysis_mode with args.fresh and separate runs: the cursor is (2, 0)
\* and clear_existing_data(True) is called
FreshStart ==
    /\ cpc = "idle"
    /\ datafiles' = [f \in DOMAIN datafiles \ clear_existing_data(datafiles) |-> datafiles[f]]
    /\ last' = [Quiet EXCEPT !.op = "fresh", !.k = 0]
    /\ UNCHANGED <<blocks, torn, runs, target, now, handed>>

\* workers and passes, with fresh starts between them; the workers of a fresh
\* session start over at the first prime
NextFresh ==
    \/ \E i \in 0..(MaxPrimeIdx - 1) : \E n \in 1..MaxBatch :
          WriteRun(i, n) /\ UNCHANGED cvars /\ UNCHANGED mvars /\ UNCHANGED avars /\ UNCHANGED wk
    \/ \E d \in BOOLEAN : Ingest(d) /\ UNCHANGED cvars /\ UNCHANGED mvars /\ UNCHANGED avars /\ UNCHANGED wk
    \/ FreshStart /\ UNCHANGED cvars /\ UNCHANGED mvars /\ UNCHANGED wk

SpecFresh == Init /\ [][NextFresh]_vars

\* C33: after a fresh start with separate runs no block file of the previous
\* session remains, and resume_p(use_separate_runs=True) returns (2, 0).
C33_FreshClearsBlocks ==
    [][last'.op = "fresh" =>
          /\ DOMAIN blocks' = {}
          /\ resume_p(blocks', torn') = <<2, 0>>]_vars

\* --------------------------------------- suggested truncate (C34)
\* --audit-boundaries: the block number printed as "Suggested
\* truncate-from-block", None when no row has status "gap".  The number is
\* taken from the first gap row: (block_num or idx) + 1.
suggested_truncate(b, t) ==
    LET df == audit_boundaries(b, t)
        gapidx == {j \in 1..Len(df) : df[j].status = "gap"}
    IN  IF gapidx = {} THEN None
        ELSE LET gap_row == df[SetMin(gapidx)]
             IN  (IF gap_row.block_num # None /\ gap_row.block_num # 0
                  THEN gap_row.block_num ELSE gap_row.idx) + 1

AuditAllOk(b, t) ==
    \A j \in 1..Len(audit_boundaries(b, t)) : audit_boundaries(b, t)[j].status = "ok"

\* the block of the first gap row of the audit: the first block that breaks
\* continuity
FirstBreaking(b, t) ==
    LET df == audit_boundaries(b, t)
    IN  df[SetMin({j \in 1..Len(df) : df[j].status = "gap"})].file

\* the store after the call: the first breaking block of the store the call
\* began with is gone and the audit has no gap row
Repaired(start) ==
    /\ FirstBreaking(start, {}) \notin DOMAIN blocks'
    /\ AuditAllOk(blocks', torn')

\* C34: when audit_boundaries finds a gap, a confirmed truncate_from_block at
\* the suggested block number removes the first block that breaks continuity,
\* and afterwards audit_boundaries reports "ok" for every remaining block.
C34_SuggestedTruncateRepairs ==
    [][/\ (/\ mop.pc = "idle" /\ mop'.pc = "idle" /\ torn = {}
           /\ suggested_truncate(blocks, torn) \in 1..MaxPrimeIdx
           /\ TruncateFromBlock(suggested_truncate(blocks, torn), TRUE, FALSE))
          => Repaired(blocks)
       /\ (/\ mop.pc = "run" /\ mop.op = "truncate_from_block"
           /\ suggested_truncate(mop.start, {}) = mop.arg
           /\ mlast'.status = "ok" /\ mop'.pc = "idle")
          => Repaired(mop.start)]_vars

\* the block that the suggestion names is never the block of the gap row: the
\* suggested number is above the number of the first gap row
C34_SuggestionSkipsGapRow ==
    (torn = {} /\ suggested_truncate(blocks, torn) # None) =>
        LET bnum == FirstPartNumber(Split(BaseName(FirstBreaking(blocks, torn)), <<>>), ChB)
        IN  bnum # None => bnum < suggested_truncate(blocks, torn)

\* ------------------------------------------------ key conservation (C35)
\* C35: a pass loses no record and invents none: the set of distinct
\* (p, m_k, n_k, q_k) keys stored in the blocks after a pass that returned
\* True is the set stored before the pass united with the keys of the run
\* files.
C35_KeysConserved ==
    [][(IngestDone /\ mop.pc = "idle" /\ mlast' = mlast) =>
          AllRows(blocks') = AllRows(blocks) \cup Range(_read_all_runs(runs))]_vars

\* ------------------------------------------- truncate keeps a prefix (C36)
\* a confirmed truncate that deleted blocks returns
TruncateReturns ==
    /\ mop.pc = "run"
    /\ mop.op \in {"truncate_from_block", "truncate_from_prime"}
    /\ mlast'.status = "ok" /\ mop'.pc = "idle"

\* the paths of the last n entries of the content-ordered catalog of b
CatalogSuffix(b, n) ==
    LET cat == sorted_blocks_by_data(b, {})
    IN  {cat[j].path : j \in (Len(cat) - n + 1)..Len(cat)}

\* C36: if the store satisfies the Prefix Invariant, then after a confirmed
\* truncate_from_prime or truncate_from_block the remaining blocks satisfy it
\* for a smaller K, and the deleted blocks are a suffix of the content-ordered
\* catalog.
C36_TruncateKeepsPrefix ==
    [][(TruncateReturns /\ PrefixK(mop.start, {}) >= 0) =>
          LET deleted == DOMAIN mop.start \ DOMAIN blocks'
          IN  /\ PrefixK(blocks', torn') >= 0
              /\ PrefixK(blocks', torn') < PrefixK(mop.start, {})
              /\ deleted = CatalogSuffix(mop.start, Cardinality(deleted))
              /\ \A x \in DOMAIN blocks' : blocks'[x] = mop.start[x]]_vars

\* the same for truncate_from_prime alone, which selects by content
C36_TruncateFromPrimeKeepsPrefix ==
    [][(TruncateReturns /\ mop.op = "truncate_from_prime" /\ PrefixK(mop.start, {}) >= 0) =>
          LET deleted == DOMAIN mop.start \ DOMAIN blocks'
          IN  /\ PrefixK(blocks', torn') >= 0
              /\ PrefixK(blocks', torn') < PrefixK(mop.start, {})
              /\ deleted = CatalogSuffix(mop.start, Cardinality(deleted))]_vars

\* --------------------------------------- soundness of the prefix check (C37)
MaxCheckBlocks == 2

\* block directories of one to MaxCheckBlocks blocks, block i named
\* pp_b{i}_p{max}, each holding the workers' rows of any non-empty set of the
\* first MaxPrimeIdx primes: sets that overlap, repeat or skip primes included
RECURSIVE CheckStores(_)
CheckStores(n) ==
    IF n = 0 THEN {[x \in {} |-> <<>>]}
    ELSE {[x \in DOMAIN b \cup {<<n, SetMax(S)>>} |->
              IF x \in DOMAIN b THEN b[x] ELSE process_batch(SortedSeq(S))] :
            b \in CheckStores(n - 1), S \in (SUBSET FirstPrimes(MaxPrimeIdx)) \ {{}}}

InitCheck ==
    /\ blocks \in UNION {CheckStores(n) : n \in 1..MaxCheckBlocks}
    /\ \E x \in DOMAIN blocks : torn \in {{}, {x}}
    /\ runs = NoRuns
    /\ target = 1
    /\ last = Quiet
    /\ cpc = "idle"
    /\ cread = {}
    /\ cplan = <<>>
    /\ cdel = FALSE
    /\ backup = NoBackup
    /\ bpart = {}
    /\ mop = MIdle
    /\ mlast = MQuiet
    /\ datafiles = NoRuns
    /\ now = 0
    /\ handed = <<>>
    /\ wk = WIdle

\* main --prefix-check on a directory that has block files
PrefixCheck ==
    /\ Untouched
    /\ DOMAIN blocks # {}
    /\ mlast' = MCall("prefix_check", 0, FALSE, FALSE, 0, "ok", prefix_check(blocks, torn))
    /\ UNCHANGED <<blocks, torn, runs, target, last, backup, bpart, mop>>

NextCheck == PrefixCheck /\ UNCHANGED cvars /\ UNCHANGED avars /\ UNCHANGED wk

SpecCheck == InitCheck /\ [][NextCheck]_vars

\* the blocks whose content can be read
ReadableBlocks == {x \in DOMAIN blocks : Readable(blocks, torn, x)}

\* C37: when the prefix check reports zero gaps and zero mismatches, the p
\* values stored in the blocks are exactly the first K primes, K being the sum
\* of the blocks' unique counts, and no p value is stored in two blocks.
C37_PrefixCheckSound ==
    (/\ mlast.op = "prefix_check"
     /\ mlast.ret.gaps = <<>>
     /\ mlast.ret.mismatches = <<>>) =>
        LET ps == UNION {PCol(blocks[x]) : x \in ReadableBlocks}
        IN  /\ \A x, y \in ReadableBlocks : x # y => PCol(blocks[x]) \cap PCol(blocks[y]) = {}
            /\ ps = FirstPrimes(Cardinality(ps))

\* the check has passed on two readable blocks
C37_Witness ==
    /\ mlast.op = "prefix_check"
    /\ mlast.ret.gaps = <<>>
    /\ mlast.ret.mismatches = <<>>
    /\ Cardinality(ReadableBlocks) >= 2

\* ----------------------------------------------- integrity report (C38)
\* detect_duplicates_in_block: rows minus rows that are unique in the four keys
detect_duplicates_in_block(df) == Len(df) - Cardinality(Range(df))

RECURSIVE SumDups(_, _)
SumDups(b, files) ==
    IF files = <<>> THEN 0
    ELSE detect_duplicates_in_block(b[Head(files)]) + SumDups(b, Tail(files))

\* quick_integrity_report: "none" when there is no block file; read_parquet of
\* the duplicate count raises on a file that cannot be read; else the total of
\* duplicate rows and the overlap rows, and the line "No overlaps of primes
\* detected between adjacent blocks." exactly when there is no overlap row
quick_integrity_report(b, t) ==
    LET files == list_block_files(b)
    IN  IF files = <<>> THEN [status |-> "none", dup_total |-> 0, overlaps |-> <<>>]
        ELSE IF t \cap DOMAIN b # {} THEN [status |-> "raise", dup_total |-> 0, overlaps |-> <<>>]
        ELSE [status |-> "ok", dup_total |-> SumDups(b, files),
              overlaps |-> detect_overlaps_between_blocks(b, t)]

MaxReportBlocks == 3

\* block directories of one to MaxReportBlocks blocks of one or two primes each
RECURSIVE ReportStoresOf(_)
ReportStoresOf(n) ==
    IF n = 0 THEN {[x \in {} |-> <<>>]}
    ELSE {[x \in DOMAIN b \cup {<<n, SetMax(S)>>} |->
              IF x \in DOMAIN b THEN b[x] ELSE process_batch(SortedSeq(S))] :
            b \in ReportStoresOf(n - 1),
            S \in {S \in SUBSET FirstPrimes(MaxPrimeIdx) : Cardinality(S) \in 1..2}}

InitReport ==
    /\ blocks \in UNION {ReportStoresOf(n) : n \in 1..MaxReportBlocks}
    /\ torn \in {{}, DOMAIN blocks}
    /\ runs = NoRuns
    /\ target = 1
    /\ last = Quiet
    /\ cpc = "idle"
    /\ cread = {}
    /\ cplan = <<>>
    /\ cdel = FALSE
    /\ backup = NoBackup
    /\ bpart = {}
    /\ mop = MIdle
    /\ mlast = MQuiet
    /\ datafiles = NoRuns
    /\ now = 0
    /\ handed = <<>>
    /\ wk = WIdle

\* main --integrity: print(quick_integrity_report())
IntegrityReport ==
    LET rep == quick_integrity_report(blocks, torn)
    IN  /\ Untouched
        /\ mlast' = MCall("quick_integrity_report", 0, FALSE, FALSE, 0, rep.status, rep)
        /\ UNCHANGED <<blocks, torn, runs, target, last, backup, bpart, mop>>

NextReport == IntegrityReport /\ UNCHANGED cvars /\ UNCHANGED avars /\ UNCHANGED wk

SpecReport == InitReport /\ [][NextReport]_vars

\* the report has been printed with the line "No overlaps of primes detected
\* between adjacent blocks."
NoOverlapStated ==
    /\ mlast.op = "quick_integrity_report"
    /\ mlast.status = "ok"
    /\ mlast.ret.overlaps = <<>>

\* C38: if quick_integrity_report states that no overlaps were detected, then
\* no prime is stored in two different blocks, blocks that are not adjacent in
\* content order included.
C38_NoOverlapReportSound ==
    NoOverlapStated =>
        \A x, y \in DOMAIN blocks : x # y => PCol(blocks[x]) \cap PCol(blocks[y]) = {}

\* C38, amended: if quick_integrity_report states that no overlaps were
\* detected, then no prime is stored in two blocks that follow one another in
\* content order; on a directory with a block that cannot be read the report
\* raises and states nothing.
C38_NoOverlapReportAdjacent ==
    LET cat == sorted_blocks_by_data(blocks, torn)
    IN  /\ NoOverlapStated =>
            \A i \in 1..(Len(cat) - 1) :
                PCol(blocks[cat[i].path]) \cap PCol(blocks[cat[i + 1].path]) = {}
        /\ (mlast.op = "quick_integrity_report" /\ torn # {}) => mlast.status = "raise"

\* the report has stated "No overlaps" for three blocks, of which the first and
\* the last in content order share a prime
C38_Witness ==
    LET cat == sorted_blocks_by_data(blocks, torn)
    IN  /\ NoOverlapStated
        /\ Len(cat) >= 3
        /\ PCol(blocks[cat[1].path]) \cap PCol(blocks[cat[3].path]) # {}

\* ------------------------------------------ PPBatchProcessor, step-wise (C39)
MaxBatchLen == 3

\* zero_df of pp_parts(p)
zero_df(p) == <<<<p, 0, 0, 0>>>>

\* a pp_parts that appends the sentinel frame for every prime
pp_parts_sentinel_too(results, p) ==
    IF p = 2 \/ p = 3 THEN Append(results, zero_df(p))
    ELSE LET iteration_results == pp_iter(p, 1, exact_log2(p))
             appended == IF iteration_results # <<>>
                         THEN Append(results, iteration_results) ELSE results
         IN  Append(appended, zero_df(p))

\* pp_parts(p) on the buffer self.results, a list of data frames: the frame of
\* the rows found is appended when there is one, and zero_df when the length
\* of the buffer is what it was at the start of the call
pp_parts_append(results, p) ==
    IF p = 2 \/ p = 3 THEN Append(results, zero_df(p))
    ELSE LET results_before == Len(results)
             iteration_results == pp_iter(p, 1, exact_log2(p))
             appended == IF iteration_results # <<>>
                         THEN Append(results, iteration_results) ELSE results
         IN  IF Len(appended) = results_before THEN Append(appended, zero_df(p))
             ELSE appended

\* prime_batch: the primes of a batch, in any order, repeated or not
Batches ==
    UNION {[1..n -> FirstPrimes(MaxPrimeIdx)] : n \in 0..MaxBatchLen}

\* process_batch(prime_batch) begins: self.results.clear()
ProcessBatch(prime_batch) ==
    /\ wk.pc = "idle"
    /\ wk' = [pc |-> "loop", batch |-> prime_batch, pos |-> 0, results |-> <<>>]
    /\ last' = [Quiet EXCEPT !.op = "batch"]
    /\ UNCHANGED <<blocks, torn, runs, target>>

\* one turn of the loop: self.pp_parts(Integer(prime))
PpParts ==
    /\ wk.pc = "loop" /\ wk.pos < Len(wk.batch)
    /\ wk' = [wk EXCEPT !.pos = wk.pos + 1,
                        !.results = pp_parts_append(wk.results, wk.batch[wk.pos + 1])]
    /\ UNCHANGED <<blocks, torn, runs, target, last>>

\* the batch returns pl.concat(self.results), or the empty frame; the buffer
\* stays as it is until the next batch clears it
BatchReturn ==
    /\ wk.pc = "loop" /\ wk.pos = Len(wk.batch)
    /\ wk' = [wk EXCEPT !.pc = "idle"]
    /\ last' = [Quiet EXCEPT !.op = "batch", !.n = Len(Concat(wk.results))]
    /\ UNCHANGED <<blocks, torn, runs, target>>

NextWorker ==
    \/ \E prime_batch \in Batches :
          ProcessBatch(prime_batch) /\ UNCHANGED cvars /\ UNCHANGED mvars /\ UNCHANGED avars
    \/ PpParts /\ UNCHANGED cvars /\ UNCHANGED mvars /\ UNCHANGED avars
    \/ BatchReturn /\ UNCHANGED cvars /\ UNCHANGED mvars /\ UNCHANGED avars

SpecWorker == Init /\ [][NextWorker]_vars

\* the frame of one prime: the sentinel row alone, or one or more rows of p
\* with m >= 1 and none of them the sentinel
OneKind(f, p) ==
    \/ f = zero_df(p)
    \/ /\ f # <<>>
       /\ \A i \in 1..Len(f) : f[i][1] = p /\ f[i][2] >= 1 /\ f[i] # <<p, 0, 0, 0>>

\* C39: for every prime that pp_parts has handled, the buffer holds exactly one
\* frame, which is the sentinel row (p,0,0,0) alone or one or more non-sentinel
\* rows with m >= 1, never both and never none, whatever the primes handled
\* before it in the batch gave; the frame that process_batch returns is the
\* concatenation of these frames.
C39_SentinelOrRows ==
    /\ Len(wk.results) = wk.pos
    /\ \A i \in 1..wk.pos : OneKind(wk.results[i], wk.batch[i])
    /\ (wk.pc = "idle" /\ last.op = "batch") =>
          Concat(wk.results) = process_batch(wk.batch)

\* a batch has returned in which a prime with the sentinel row follows a prime
\* with rows, and a prime with rows follows a prime with the sentinel row
C39_Witness ==
    /\ wk.pc = "idle" /\ last.op = "batch"
    /\ \E i, j \in 1..(Len(wk.batch) - 1) :
          /\ wk.results[i] # zero_df(wk.batch[i])
          /\ wk.results[i + 1] = zero_df(wk.batch[i + 1])
          /\ wk.results[j] = zero_df(wk.batch[j])
          /\ wk.results[j + 1] # zero_df(wk.batch[j + 1])

\* ------------------------------------------- cost of the binary search (C40)
\* the least e with 2^e >= k
CeilLog2(k) == CHOOSE e \in 0..k : Pow(2, e) >= k /\ (e = 0 \/ Pow(2, e - 1) < k)

\* the loop of the audit that has run on the blocks, K distinct p values
AuditRun ==
    LET lf == _lazy_unique_sorted_primes(blocks)
    IN  BinarySearchRun(lf, 0, Len(lf) - 1, 0)

\* C40: the binary search of audit_prefix_first_mismatch ends for every store
\* with K >= 1 distinct p values after at most ceil(log2(K)) turns of its loop,
\* between the lookup at index 0 and the lookup that verifies the candidate,
\* and the candidate is the index the audit reports.
C40_SearchIsLogarithmic ==
    (/\ mlast.op = "audit_prefix_first_mismatch"
     /\ mlast.status = "ok"
     /\ AllPrimes(blocks) # {}
     /\ 2 \in AllPrimes(blocks)) =>
        /\ AuditRun.iterations <= CeilLog2(Cardinality(AllPrimes(blocks)))
        /\ AuditRun.lo \in 0..(Cardinality(AllPrimes(blocks)) - 1)
        /\ mlast.ret.index \in {None, AuditRun.lo}

\* an audit has run on four or more p values and its loop took ceil(log2(K))
\* turns, two or more
C40_Witness ==
    /\ mlast.op = "audit_prefix_first_mismatch"
    /\ mlast.status = "ok"
    /\ 2 \in AllPrimes(blocks)
    /\ Cardinality(AllPrimes(blocks)) >= 4
    /\ AuditRun.iterations = CeilLog2(Cardinality(AllPrimes(blocks)))
    /\ mlast.ret.index # None
====
